---- MODULE Spec2Model ----
(***************************************************************************)
(* Time Machine display: the travel coordinator (js/app.js, TimeMachine),  *)
(* the wormhole transition engine (WormholeManager) and the slideshow      *)
(* calls the coordinator makes, as a state machine over browser events:    *)
(* key presses, the one-second clock tick and the expiry of the timers     *)
(* and animations that the async functions await.                          *)
(*                                                                         *)
(* An async function that is suspended at an await is a record in one of   *)
(* three queues, one per awaited delay.  Timers of equal delay expire in   *)
(* the order they were set, so each queue is first-in first-out:           *)
(*   holdQ    initiateAutomaticTimeTravel at  await this.wait(4000)        *)
(*   flashQ   WormholeManager.stop        at  await this.arrivalFlash()    *)
(*   arriveQ  goToYear(.., true)          at  await this.wait(200)         *)
(* Code that runs between two awaits without a timer in between runs in    *)
(* one step (promise continuations are microtasks).  A timer set earlier   *)
(* with a shorter delay expires first: the 200 ms fade of an arrival ends  *)
(* before any flash (500 ms) or hold (4000 ms) that is running with it.    *)
(*                                                                         *)
(* Of the slideshow the state keeps the auto-advance timer and the loaded  *)
(* folder; of the manifest, which folders list at least one file.  The     *)
(* wall clock is read at the ticks, hour by hour.                          *)
(*                                                                         *)
(* The sound side of the page is the chime engine (ChimesManager) and the  *)
(* two sound cues of the wormhole.  It shares no field with the travel     *)
(* coordinator, and each side is explored by specifications of its own:    *)
(*   Spec, FairSpec  keys, clock ticks and timers of travel; the sound     *)
(*                   side stands still                                     *)
(*   ChimeSpec       the chime engine under the wall clock, its 30 s poll  *)
(*                   and the test keys T and B                             *)
(*   CueSpec         the wormhole engine with its loop and arrival sounds, *)
(*                   started and stopped by any caller, next to the bell   *)
(*   FairChimeSpec   the chime engine with its timers firing, one night    *)
(*   BothSpec        travel and chimes together over the boundary of a     *)
(*                   scheduled hour                                        *)
(*   LoadSpec        init's fetches, then keys and timers with what the    *)
(*                   page shows                                            *)
(*   StatusSpec,     the page with the glitch text scramble on the status  *)
(*   LabelSpec       line and on the year label                            *)
(*   SlideSpec       the slideshow with its media, timers and video        *)
(* An audio element is "none" (no such element in the document), "nosrc",  *)
(* "failed" (it has a source that could not be loaded: element.error is    *)
(* set) or "ready"; play() on a ready element resolves or is rejected, on  *)
(* a failed one it is rejected.                                            *)
(***************************************************************************)
EXTENDS Integers, Sequences, FiniteSets, TLC

(* ----------------------------- bounds ---------------------------------- *)

\* longest queue of async calls suspended at the same await
MaxTasks == 2
\* the hours of the evening that the runs checked for progress cover:
\* 19 (no entry), 20 -> 2025 (the starting year), 21 -> 1969
EveningStart == 19
EveningHours == 3
\* the minutes of an hour that the wall clock is read in: 0 is minute 0,
\* the minutes 1 .. LastMinute stand for the rest of the hour
LastMinute == 1

(* ------------------------- static configuration ------------------------ *)

Periods == 1..5

years ==
  [k \in Periods |->
     CASE k = 1 -> [year |-> "2025", era |-> "CE",  folder |-> "2025",   display |-> "2025 CE"]
       [] k = 2 -> [year |-> "1969", era |-> "CE",  folder |-> "1969",   display |-> "1969 CE"]
       [] k = 3 -> [year |-> "1751", era |-> "CE",  folder |-> "1751",   display |-> "1751 CE"]
       [] k = 4 -> [year |-> "423",  era |-> "BCE", folder |-> "423bce", display |-> "423 BCE"]
       [] k = 5 -> [year |-> "2026", era |-> "CE",  folder |-> "2026",   display |-> "2026 CE"]]

Folders == {years[k].folder : k \in Periods}

schedule ==
  (20 :> 1) @@ (21 :> 2) @@ (22 :> 3) @@ (23 :> 4) @@ (0 :> 5) @@ (12 :> 4)

Hours == 0..23

\* null / undefined of the source
NoKey == 0
NoHour == -1
NoText == "null"

\* ChimesManager.lastChimeHour before the first hourly chime
NeverChimed == -1

\* the text an element has in the page's markup
MarkupText == "markup"

\* what document.getElementById found for an <audio> element
AudioStates == {"none", "nosrc", "failed", "ready"}

(* ------------------------------- state --------------------------------- *)

VARIABLES
  isInitialized,      \* TimeMachine.init has run: listeners and timers exist
  hour,               \* new Date().getHours(): in the runs of travel, as read
                      \* by the latest clock tick
  manifest,           \* folders for which the manifest lists at least one file
  currentYearKey,     \* TimeMachine.currentYearKey
  pendingYearKey,     \* TimeMachine.pendingYearKey (NoKey: undefined or null)
  lastScheduledHour,  \* TimeMachine.lastScheduledHour (NoHour: null)
  isActive,           \* WormholeManager.isActive
  targetYear,         \* WormholeManager.targetYear, the destination label shown
  intervalId,         \* SlideshowManager.intervalId is set (auto-advance timer)
  currentYear,        \* SlideshowManager.currentYear (folder)
  holdQ,              \* year keys of automatic travels in their 4000 ms hold
  flashQ,             \* stop sequences whose flash runs: [by, key] of the caller
  arriveQ,            \* year keys of goToYear calls in their 200 ms fade
  lastOp,             \* history: what the last event did
  autoStartsInRun,    \* history: automatic travels started since the ticks' hour last changed
  startWhileActive,   \* history: WormholeManager.start was called while active
  minute,             \* new Date().getMinutes() of the wall clock
  checkInterval,      \* ChimesManager.checkInterval is set (the 30 s poll runs)
  lastChimeHour,      \* ChimesManager.lastChimeHour
  isChiming,          \* ChimesManager.isChiming
  audioBell,          \* ChimesManager.audioBell, the element's state
  chimeQ,             \* chime calls suspended in their loop: [count, i, at]
  bellCue,            \* what the latest strike sounded with
  audioWormhole,      \* WormholeManager.audioWormhole, the element's state
  audioArrival,       \* WormholeManager.audioArrival, the element's state
  synthWormhole,      \* WormholeManager.synthWormhole is set (synthesized loop)
  wormholeCue,        \* the loop sound of the latest start
  arrivalCue,         \* the arrival sound of the latest stop
  rotationInterval,   \* WormholeManager.rotationInterval is set
  particleInterval,   \* WormholeManager.particleInterval is set
  stopLog,            \* history: the steps of the latest stop sequence
  chimeLog,           \* history: strikes and delays since the latest sequence began
  chimeCount,         \* history: the count that sequence was started with
  hourlyStarts,       \* history: counts of the hourly sequences started in this hour
  boundary,           \* history: this hour began while the poll was running
  polledAtZero,       \* history: a poll has read minute 0 of this hour
  heldBack,           \* history: a poll in minute 0 of this hour, not yet chimed,
                      \* found a sequence in progress
  loading,            \* the fetch that TimeMachine.init awaits: AtManifest, the
                      \* index of a facts file, Loaded after the last one;
                      \* Halted once an exception has left init
  facts,              \* TimeMachine.facts: folder -> lines
  tickerContent,      \* the texts of the spans of #ticker-content
  statusText,         \* #status-text: textContent, dataset, running scramble, history flag wrote
  yearValue,          \* #year-value: textContent and dataset
  yearEra,            \* #year-era: textContent and dataset
  mediaItems,         \* SlideshowManager.mediaItems: isVideo of each item
  currentIndex,       \* SlideshowManager.currentIndex
  isVideoPlaying,     \* SlideshowManager.isVideoPlaying
  timers,             \* the setInterval timers of the slideshow not yet cleared
  video,              \* #slideshow-video: idle, starting, playing, paused
  imageLoads          \* images of showImage whose load has not settled

travelVars == <<currentYearKey, pendingYearKey, lastScheduledHour>>
wormholeVars == <<isActive, targetYear>>
slideshowVars == <<intervalId, currentYear>>
taskVars == <<holdQ, flashQ, arriveQ>>
historyVars == <<lastOp, autoStartsInRun, startWhileActive>>
chimeVars == <<checkInterval, lastChimeHour, isChiming, audioBell, chimeQ, bellCue>>
cueVars == <<audioWormhole, audioArrival, synthWormhole, wormholeCue, arrivalCue,
            rotationInterval, particleInterval, stopLog>>
chimeHistoryVars ==
  <<chimeLog, chimeCount, hourlyStarts, boundary, polledAtZero, heldBack>>

soundVars == <<minute, chimeVars, cueVars, chimeHistoryVars>>

viewVars == <<loading, facts, tickerContent, statusText, yearValue, yearEra>>

playerVars == <<mediaItems, currentIndex, isVideoPlaying, timers, video, imageLoads>>

vars == <<isInitialized, hour, manifest, travelVars, wormholeVars,
          slideshowVars, taskVars, historyVars, soundVars, viewVars, playerVars>>

(* The program state as records, so that a handler is a function from the  *)
(* state before it to the state after it and a call is an application:     *)
(* Now for the travel side, Sound for the sound side, View for what the    *)
(* page shows.                                                             *)
Now ==
  [isInitialized |-> isInitialized, hour |-> hour, manifest |-> manifest,
   currentYearKey |-> currentYearKey, pendingYearKey |-> pendingYearKey,
   lastScheduledHour |-> lastScheduledHour,
   isActive |-> isActive, targetYear |-> targetYear,
   intervalId |-> intervalId, currentYear |-> currentYear,
   holdQ |-> holdQ, flashQ |-> flashQ, arriveQ |-> arriveQ,
   lastOp |-> lastOp,
   autoStartsInRun |-> autoStartsInRun, startWhileActive |-> startWhileActive]

Sound ==
  [hour |-> hour, lastOp |-> lastOp,
   minute |-> minute, checkInterval |-> checkInterval,
   lastChimeHour |-> lastChimeHour, isChiming |-> isChiming,
   audioBell |-> audioBell, chimeQ |-> chimeQ, bellCue |-> bellCue,
   audioWormhole |-> audioWormhole, audioArrival |-> audioArrival,
   synthWormhole |-> synthWormhole, wormholeCue |-> wormholeCue,
   arrivalCue |-> arrivalCue,
   rotationInterval |-> rotationInterval, particleInterval |-> particleInterval,
   stopLog |-> stopLog,
   chimeLog |-> chimeLog, chimeCount |-> chimeCount,
   hourlyStarts |-> hourlyStarts, boundary |-> boundary,
   polledAtZero |-> polledAtZero, heldBack |-> heldBack]

Commit(s) ==
  /\ isInitialized' = s.isInitialized
  /\ hour' = s.hour
  /\ manifest' = s.manifest
  /\ currentYearKey' = s.currentYearKey
  /\ pendingYearKey' = s.pendingYearKey
  /\ lastScheduledHour' = s.lastScheduledHour
  /\ isActive' = s.isActive
  /\ targetYear' = s.targetYear
  /\ intervalId' = s.intervalId
  /\ currentYear' = s.currentYear
  /\ holdQ' = s.holdQ
  /\ flashQ' = s.flashQ
  /\ arriveQ' = s.arriveQ
  /\ lastOp' = s.lastOp
  /\ autoStartsInRun' = s.autoStartsInRun
  /\ startWhileActive' = s.startWhileActive

View ==
  [minute |-> minute, loading |-> loading, facts |-> facts,
   tickerContent |-> tickerContent, statusText |-> statusText,
   yearValue |-> yearValue, yearEra |-> yearEra]

CommitView(v) ==
  /\ loading' = v.loading
  /\ facts' = v.facts
  /\ tickerContent' = v.tickerContent
  /\ statusText' = v.statusText
  /\ yearValue' = v.yearValue
  /\ yearEra' = v.yearEra

CommitSound(s) ==
  /\ minute' = s.minute
  /\ checkInterval' = s.checkInterval
  /\ lastChimeHour' = s.lastChimeHour
  /\ isChiming' = s.isChiming
  /\ audioBell' = s.audioBell
  /\ chimeQ' = s.chimeQ
  /\ bellCue' = s.bellCue
  /\ audioWormhole' = s.audioWormhole
  /\ audioArrival' = s.audioArrival
  /\ synthWormhole' = s.synthWormhole
  /\ wormholeCue' = s.wormholeCue
  /\ arrivalCue' = s.arrivalCue
  /\ rotationInterval' = s.rotationInterval
  /\ particleInterval' = s.particleInterval
  /\ stopLog' = s.stopLog
  /\ chimeLog' = s.chimeLog
  /\ chimeCount' = s.chimeCount
  /\ hourlyStarts' = s.hourlyStarts
  /\ boundary' = s.boundary
  /\ polledAtZero' = s.polledAtZero
  /\ heldBack' = s.heldBack

\* the queues stay within the bounds of the model
WithinBounds(s) ==
  /\ Len(s.holdQ) <= MaxTasks
  /\ Len(s.flashQ) <= MaxTasks
  /\ Len(s.arriveQ) <= MaxTasks

(* ------------------------------ slideshow ------------------------------ *)

\* SlideshowManager.pause: stopAutoAdvance clears the timer
slideshowPause(s) == [s EXCEPT !.intervalId = FALSE]

\* SlideshowManager.loadYear: stop, set the folder, then either the
\* placeholder (no media, no timer) or showCurrent and startAutoAdvance
loadYear(s, yearKey) ==
  [s EXCEPT !.currentYear = yearKey,
            !.intervalId = (yearKey \in s.manifest)]

(* The slideshow with its media: a state of SlideshowManager and of its   *)
(* video element as a record.                                              *)
Slides ==
  [intervalId |-> intervalId, currentYear |-> currentYear,
   mediaItems |-> mediaItems, currentIndex |-> currentIndex,
   isVideoPlaying |-> isVideoPlaying, timers |-> timers, video |-> video,
   imageLoads |-> imageLoads, lastOp |-> lastOp]

\* SlideshowManager.stopAutoAdvance
stopAutoAdvance(sl) ==
  IF sl.intervalId THEN [sl EXCEPT !.timers = @ - 1, !.intervalId = FALSE]
                   ELSE sl

\* faulty variant: a timer is set without clearing the one that runs
startAutoAdvanceNoStop(sl) ==
  [sl EXCEPT !.intervalId = TRUE, !.timers = @ + 1]

\* SlideshowManager.startAutoAdvance
startAutoAdvance(sl) ==
  [stopAutoAdvance(sl) EXCEPT !.intervalId = TRUE, !.timers = @ + 1]

\* videoElement.pause(): a video whose play() is pending stays starting,
\* the catch handlers of showVideo play it again or advance
videoPause(sl) ==
  IF sl.video = "playing" THEN [sl EXCEPT !.video = "paused"] ELSE sl

\* videoElement.play()
videoPlay(sl) ==
  IF sl.video = "paused" THEN [sl EXCEPT !.video = "playing"] ELSE sl

\* SlideshowManager.showImage
showImage(sl) ==
  [videoPause([sl EXCEPT !.isVideoPlaying = FALSE]) EXCEPT !.imageLoads = @ + 1]

\* SlideshowManager.showVideo
showVideo(sl) ==
  [stopAutoAdvance([sl EXCEPT !.isVideoPlaying = TRUE]) EXCEPT !.video = "starting"]

\* SlideshowManager.showCurrent
showCurrent(sl) ==
  IF Len(sl.mediaItems) = 0 THEN sl
  ELSE IF sl.mediaItems[sl.currentIndex + 1] THEN showVideo(sl)
                                             ELSE showImage(sl)

\* SlideshowManager.advance
advance(sl) ==
  IF Len(sl.mediaItems) = 0 THEN sl
  ELSE showCurrent([sl EXCEPT !.currentIndex = (@ + 1) % Len(sl.mediaItems)])

\* SlideshowManager.onVideoEnded
onVideoEnded(sl) ==
  startAutoAdvance(advance([sl EXCEPT !.isVideoPlaying = FALSE, !.video = "idle"]))

\* SlideshowManager.stop
stop(sl) ==
  [videoPause(stopAutoAdvance(sl)) EXCEPT !.isVideoPlaying = FALSE]

\* SlideshowManager.pause
pause(sl) ==
  LET sl1 == stopAutoAdvance(sl)
  IN IF sl1.isVideoPlaying THEN videoPause(sl1) ELSE sl1

\* SlideshowManager.resume
resume(sl) ==
  startAutoAdvance(IF sl.isVideoPlaying THEN videoPlay(sl) ELSE sl)

\* SlideshowManager.loadYear with the media of the folder, shuffleArray
\* leaving shuffledItems
loadYearMedia(sl, yearKey, shuffledItems) ==
  LET sl1 == [stop(sl) EXCEPT !.currentYear = yearKey, !.currentIndex = 0,
                              !.mediaItems = shuffledItems]
  IN IF Len(shuffledItems) = 0 THEN sl1
     ELSE startAutoAdvance(showCurrent(sl1))

\* the callback of startAutoAdvance's setInterval
autoAdvance(sl) == IF ~sl.isVideoPlaying THEN advance(sl) ELSE sl

\* img.onload
imageLoaded(sl) == [sl EXCEPT !.imageLoads = @ - 1]

\* img.onerror
imageFailed(sl) == advance([sl EXCEPT !.imageLoads = @ - 1])

\* the video's play() fulfilled, with sound or muted
videoStarted(sl) == [sl EXCEPT !.video = "playing"]

\* both play() of showVideo rejected
videoFailed(sl) == advance([sl EXCEPT !.video = "idle"])

(* ------------------------------- wormhole ------------------------------ *)

\* WormholeManager.isRunning
isRunning(s) == s.isActive

\* WormholeManager.start
wormholeStart(s, yearDisplay) ==
  IF s.isActive
    THEN [s EXCEPT !.startWhileActive = TRUE]
    ELSE [s EXCEPT !.isActive = TRUE, !.targetYear = yearDisplay]

(* ------------------------------ coordinator ---------------------------- *)

\* faulty variant: the arrival reloads the folder the slideshow holds
arriveReloads(s, yearKey) ==
  IF s.currentYear = NoText THEN loadYear(s, years[yearKey].folder)
                            ELSE loadYear(s, s.currentYear)

\* goToYear from the line after its 200 ms fade (or from the start when
\* animate is false): the labels, the slideshow reload, the ticker
arrive(s, yearKey) == loadYear(s, years[yearKey].folder)

\* TimeMachine.goToYear up to its first await
goToYear(s, yearKey, animate) ==
  IF yearKey \notin DOMAIN years THEN s
  ELSE LET s1 == [s EXCEPT !.currentYearKey = yearKey] IN
       IF animate THEN [s1 EXCEPT !.arriveQ = Append(@, yearKey)]
                  ELSE arrive(s1, yearKey)

\* faulty variant: stop that resolves at once, without awaiting the flash
wormholeStopNoFlash(s, caller) ==
  goToYear([s EXCEPT !.isActive = FALSE], caller.key, TRUE)

\* WormholeManager.stop as awaited by caller = [by, key], which goes on with
\* goToYear(key, true) once the promise resolves: at once when the engine
\* is not active, after the flash otherwise
wormholeStop(s, caller) ==
  IF ~s.isActive
    THEN goToYear(s, caller.key, TRUE)
    ELSE [s EXCEPT !.flashQ = Append(@, caller)]

\* the end of arrivalFlash for the oldest running stop: stop's lines after
\* the await, then the caller's goToYear
flashFinished(s) ==
  LET caller == Head(s.flashQ)
      s1 == [s EXCEPT !.flashQ = Tail(@), !.isActive = FALSE,
                      !.lastOp = IF caller.by = "manual" THEN "manual_commit"
                                                         ELSE "auto_commit"]
  IN goToYear(s1, caller.key, TRUE)

\* faulty variant: initiateTimeTravel without its isRunning guard
initiateTimeTravelUnguarded(s, yearKey) ==
  LET s1 == slideshowPause(s)
      s2 == [s1 EXCEPT !.pendingYearKey = yearKey]
      s3 == wormholeStart(s2, years[yearKey].display)
  IN [s3 EXCEPT !.lastOp = "digit_travel"]

\* faulty variant: initiateTimeTravel that also sets the 4000 ms timer of the
\* automatic travel
initiateTimeTravelWithTimeout(s, yearKey) ==
  IF isRunning(s) THEN [s EXCEPT !.lastOp = "digit_ignored"]
  ELSE LET s1 == slideshowPause(s)
           s2 == [s1 EXCEPT !.pendingYearKey = yearKey]
           s3 == wormholeStart(s2, years[yearKey].display)
       IN [s3 EXCEPT !.lastOp = "digit_travel", !.holdQ = Append(@, yearKey)]

\* faulty variant: initiateTimeTravel that does not pause the slideshow
initiateTimeTravelNoPause(s, yearKey) ==
  IF isRunning(s) THEN [s EXCEPT !.lastOp = "digit_ignored"]
  ELSE LET s2 == [s EXCEPT !.pendingYearKey = yearKey]
           s3 == wormholeStart(s2, years[yearKey].display)
       IN [s3 EXCEPT !.lastOp = "digit_travel"]

\* TimeMachine.initiateTimeTravel
initiateTimeTravel(s, yearKey) ==
  IF isRunning(s) THEN [s EXCEPT !.lastOp = "digit_ignored"]
  ELSE LET s1 == slideshowPause(s)
           s2 == [s1 EXCEPT !.pendingYearKey = yearKey]
           s3 == wormholeStart(s2, years[yearKey].display)
       IN [s3 EXCEPT !.lastOp = "digit_travel"]

\* faulty variant: a digit that jumps to the year without an episode
digitKeyJumps(s, yearKey) ==
  IF yearKey \in DOMAIN years /\ yearKey # s.currentYearKey
    THEN goToYear([s EXCEPT !.lastOp = "digit_travel"], yearKey, TRUE)
    ELSE [s EXCEPT !.lastOp = "digit_ignored"]

\* the keydown listener, digits 1-5
digitKey(s, yearKey) ==
  IF yearKey \in DOMAIN years /\ yearKey # s.currentYearKey
    THEN initiateTimeTravel(s, yearKey)
    ELSE [s EXCEPT !.lastOp = "digit_ignored"]

\* faulty variant: completeTimeTravel without its pendingYearKey check
completeTimeTravelUnchecked(s) ==
  LET yearKey == s.pendingYearKey
      s1 == [s EXCEPT !.pendingYearKey = NoKey, !.lastOp = "space_complete"]
  IN wormholeStop(s1, [by |-> "manual", key |-> yearKey])

\* faulty variant: completeTimeTravel that leaves pendingYearKey set
completeTimeTravelKeepsPending(s) ==
  IF s.pendingYearKey = NoKey THEN [s EXCEPT !.lastOp = "space_ignored"]
  ELSE wormholeStop([s EXCEPT !.lastOp = "space_complete"],
                    [by |-> "manual", key |-> s.pendingYearKey])

\* TimeMachine.completeTimeTravel
completeTimeTravel(s) ==
  IF s.pendingYearKey = NoKey THEN [s EXCEPT !.lastOp = "space_ignored"]
  ELSE LET yearKey == s.pendingYearKey
           s1 == [s EXCEPT !.pendingYearKey = NoKey, !.lastOp = "space_complete"]
       IN wormholeStop(s1, [by |-> "manual", key |-> yearKey])

\* faulty variant: a Space that stops the wormhole whenever it is active,
\* toward the pending year or else the current one
spaceKeyStopsAny(s) ==
  IF isRunning(s)
    THEN wormholeStop([s EXCEPT !.pendingYearKey = NoKey, !.lastOp = "space_complete"],
                      [by |-> "manual",
                       key |-> IF s.pendingYearKey # NoKey THEN s.pendingYearKey
                                                           ELSE s.currentYearKey])
    ELSE [s EXCEPT !.lastOp = "space_ignored"]

\* the keydown listener, Space
spaceKey(s) ==
  IF isRunning(s) THEN completeTimeTravel(s)
                  ELSE [s EXCEPT !.lastOp = "space_ignored"]

\* faulty variant: initiateAutomaticTimeTravel that does not pause the slideshow
initiateAutomaticTimeTravelNoPause(s, yearKey) ==
  LET s2 == wormholeStart(s, years[yearKey].display)
  IN [s2 EXCEPT !.holdQ = Append(@, yearKey),
                !.autoStartsInRun = IF @ < 2 THEN @ + 1 ELSE @]

\* faulty variant: initiateAutomaticTimeTravel that stores its destination
\* in pendingYearKey
initiateAutomaticTimeTravelStoresPending(s, yearKey) ==
  LET s1 == slideshowPause(s)
      s2 == wormholeStart([s1 EXCEPT !.pendingYearKey = yearKey], years[yearKey].display)
  IN [s2 EXCEPT !.holdQ = Append(@, yearKey),
                !.autoStartsInRun = IF @ < 2 THEN @ + 1 ELSE @]

\* TimeMachine.initiateAutomaticTimeTravel up to its await this.wait(4000)
initiateAutomaticTimeTravel(s, yearKey) ==
  LET s1 == slideshowPause(s)
      s2 == wormholeStart(s1, years[yearKey].display)
  IN [s2 EXCEPT !.holdQ = Append(@, yearKey),
                !.autoStartsInRun = IF @ < 2 THEN @ + 1 ELSE @]

\* faulty variant: after the hold, goToYear without stopping the wormhole
holdFinishedNoStop(s) ==
  goToYear([s EXCEPT !.holdQ = Tail(@), !.lastOp = "hold_done"], Head(s.holdQ), TRUE)

\* initiateAutomaticTimeTravel after the hold: stop, then goToYear
holdFinished(s) ==
  LET yearKey == Head(s.holdQ)
      s1 == [s EXCEPT !.holdQ = Tail(@), !.lastOp = "hold_done"]
  IN wormholeStop(s1, [by |-> "auto", key |-> yearKey])

\* faulty variant: checkScheduledTravel without its isRunning guard
checkScheduledTravelUnguarded(s, currentHour) ==
  IF currentHour \notin DOMAIN schedule
    THEN [s EXCEPT !.lastScheduledHour = NoHour, !.lastOp = "tick_reset"]
  ELSE IF s.lastScheduledHour = currentHour
    THEN [s EXCEPT !.lastOp = "tick_already"]
  ELSE IF s.currentYearKey = schedule[currentHour]
    THEN [s EXCEPT !.lastScheduledHour = currentHour, !.lastOp = "tick_marked"]
  ELSE initiateAutomaticTimeTravel(
         [s EXCEPT !.lastScheduledHour = currentHour, !.lastOp = "tick_travel"],
         schedule[currentHour])

\* faulty variant: checkScheduledTravel that does not record the hour it fired for
checkScheduledTravelForgets(s, currentHour) ==
  IF isRunning(s) THEN [s EXCEPT !.lastOp = "tick_active"]
  ELSE IF currentHour \notin DOMAIN schedule
    THEN [s EXCEPT !.lastScheduledHour = NoHour, !.lastOp = "tick_reset"]
  ELSE IF s.lastScheduledHour = currentHour
    THEN [s EXCEPT !.lastOp = "tick_already"]
  ELSE IF s.currentYearKey = schedule[currentHour]
    THEN [s EXCEPT !.lastScheduledHour = currentHour, !.lastOp = "tick_marked"]
  ELSE initiateAutomaticTimeTravel(
         [s EXCEPT !.lastOp = "tick_travel"], schedule[currentHour])

\* faulty variant: checkScheduledTravel without the already-at-the-destination case
checkScheduledTravelAlwaysTravels(s, currentHour) ==
  IF isRunning(s) THEN [s EXCEPT !.lastOp = "tick_active"]
  ELSE IF currentHour \notin DOMAIN schedule
    THEN [s EXCEPT !.lastScheduledHour = NoHour, !.lastOp = "tick_reset"]
  ELSE IF s.lastScheduledHour = currentHour
    THEN [s EXCEPT !.lastOp = "tick_already"]
  ELSE initiateAutomaticTimeTravel(
         [s EXCEPT !.lastScheduledHour = currentHour, !.lastOp = "tick_travel"],
         schedule[currentHour])

\* TimeMachine.checkScheduledTravel
checkScheduledTravel(s, currentHour) ==
  IF isRunning(s) THEN [s EXCEPT !.lastOp = "tick_active"]
  ELSE IF currentHour \notin DOMAIN schedule
    THEN [s EXCEPT !.lastScheduledHour = NoHour, !.lastOp = "tick_reset"]
  ELSE IF s.lastScheduledHour = currentHour
    THEN [s EXCEPT !.lastOp = "tick_already"]
  ELSE IF s.currentYearKey = schedule[currentHour]
    THEN [s EXCEPT !.lastScheduledHour = currentHour, !.lastOp = "tick_marked"]
  ELSE initiateAutomaticTimeTravel(
         [s EXCEPT !.lastScheduledHour = currentHour, !.lastOp = "tick_travel"],
         schedule[currentHour])

\* TimeMachine.updateClock, with now.getHours() = currentHour: the clock
\* text, then checkScheduledTravel
updateClock(s, currentHour) ==
  LET s1 == [s EXCEPT !.hour = currentHour,
                      !.autoStartsInRun = IF s.hour = currentHour THEN @ ELSE 0]
  IN checkScheduledTravel(s1, currentHour)

\* TimeMachine.init after the fetches: listeners, startClock (one
\* updateClock at once), goToYear(1, false)
init(s, m) ==
  LET s1 == [s EXCEPT !.manifest = m, !.isInitialized = TRUE]
      s2 == updateClock(s1, s1.hour)
      s3 == goToYear(s2, 1, FALSE)
  IN [s3 EXCEPT !.lastOp = "init"]

(* ------------------------------ sound cues ----------------------------- *)

\* element && element.src
hasSource(element) == element \in {"failed", "ready"}

\* how element.play() can settle
playOutcomes(element) ==
  IF element = "ready" THEN {"resolved", "rejected"} ELSE {"rejected"}

\* WormholeManager.playSynthWormhole
playSynthWormhole(s) == [s EXCEPT !.synthWormhole = TRUE, !.wormholeCue = "synth"]

\* WormholeManager.playWormholeSound up to the promise of play()
playWormholeSound(s) ==
  IF hasSource(s.audioWormhole)
    THEN [s EXCEPT !.wormholeCue = "pending"]
    ELSE playSynthWormhole(s)

\* audioWormhole.play() settles: the catch handler starts the synthesized loop
wormholePlaySettled(s, outcome) ==
  IF outcome = "resolved"
    THEN [s EXCEPT !.wormholeCue = "asset", !.lastOp = "loop_resolved"]
    ELSE [playSynthWormhole(s) EXCEPT !.lastOp = "loop_rejected"]

\* WormholeManager.playSynthArrival
playSynthArrival(s) == [s EXCEPT !.arrivalCue = "synth"]

\* WormholeManager.playArrivalSound up to the promise of play()
playArrivalSound(s) ==
  IF hasSource(s.audioArrival)
    THEN [s EXCEPT !.arrivalCue = "pending"]
    ELSE playSynthArrival(s)

\* audioArrival.play() settles
arrivalPlaySettled(s, outcome) ==
  IF outcome = "resolved"
    THEN [s EXCEPT !.arrivalCue = "asset", !.lastOp = "arrival_resolved"]
    ELSE [playSynthArrival(s) EXCEPT !.lastOp = "arrival_rejected"]

\* The sounds of WormholeManager.stop, between its guard and the flash:
\* pause the loop's element (a play() still pending is then rejected,
\* "aborted" until its handler runs), stop the synthesized loop, play the
\* arrival sound
stopSounds(s) ==
  LET s1 == IF s.audioWormhole = "none" THEN s
            ELSE [s EXCEPT !.wormholeCue =
                             CASE @ = "pending" -> "aborted"
                               [] @ = "asset" -> "none"
                               [] OTHER -> @]
      s2 == IF s1.synthWormhole
              THEN [s1 EXCEPT !.synthWormhole = FALSE, !.wormholeCue = "none"]
              ELSE s1
      s3 == [s2 EXCEPT !.stopLog = Append(@, "loop sound off")]
  IN [playArrivalSound(s3) EXCEPT !.stopLog = Append(@, "arrival sound")]

\* WORMHOLE_CONFIG.showParticles
showParticles == TRUE

\* WormholeManager.startRandomRotation
startRandomRotation(s) == [s EXCEPT !.rotationInterval = TRUE]

\* WormholeManager.startParticles
startParticles(s) == [s EXCEPT !.particleInterval = showParticles]

\* WormholeManager.stopRandomRotation
stopRandomRotation(s) ==
  [s EXCEPT !.rotationInterval = FALSE, !.stopLog = Append(@, "rotation off")]

\* WormholeManager.stopParticles
stopParticles(s) ==
  [s EXCEPT !.particleInterval = FALSE, !.stopLog = Append(@, "particles off")]

\* the effects of WormholeManager.start after its guard: the sound, the
\* rotation, the particles
startEffects(s) == startParticles(startRandomRotation(playWormholeSound(s)))

\* faulty variant: a stop that plays the arrival sound and the flash first
stopEffectsLate(s) ==
  LET s1 == [stopSounds([s EXCEPT !.stopLog = <<>>])
               EXCEPT !.stopLog = Append(@, "flash")]
  IN stopParticles(stopRandomRotation(s1))

\* the effects of WormholeManager.stop from its guard to the await of its
\* flash
stopEffects(s) ==
  LET s1 == stopParticles(stopRandomRotation([s EXCEPT !.stopLog = <<>>]))
  IN [stopSounds(s1) EXCEPT !.stopLog = Append(@, "flash")]

\* WormholeManager.stop after its flash, and the caller's goToYear
flashEnded(s) == [s EXCEPT !.stopLog = @ \o <<"inactive", "commit">>]

(* ----------------------------- chime engine ---------------------------- *)

\* faulty variant: getChimeCount without the 0 -> 12 case
getChimeCountNoWrap(hour24) == hour24 % 12

\* ChimesManager.getChimeCount
getChimeCount(hour24) ==
  LET hour12 == hour24 % 12
  IN IF hour12 = 0 THEN 12 ELSE hour12

\* ChimesManager.playSynthBell (audioSynth is the global of audio-synth.js)
playSynthBell(s) == [s EXCEPT !.bellCue = "synth"]

\* ChimesManager.playBell as called by the chime call k, up to the point
\* where its promise waits: for audioBell.play() to settle, or for the
\* 1000 ms timer set next to the synthesized bell
playBell(s, k) ==
  LET s1 == [s EXCEPT !.chimeLog = Append(@, "strike")]
  IN IF s.audioBell = "ready"
       THEN [s1 EXCEPT !.bellCue = "pending", !.chimeQ[k].at = "play"]
       ELSE [playSynthBell(s1) EXCEPT !.chimeQ[k].at = "ring"]

\* the chime call k at the head of its for loop
chimeLoop(s, k) ==
  IF s.chimeQ[k].i < s.chimeQ[k].count
    THEN playBell(s, k)
    ELSE [s EXCEPT !.chimeQ = SubSeq(@, 1, k - 1) \o SubSeq(@, k + 1, Len(@)),
                   !.isChiming = FALSE,
                   !.lastOp = "chime_end"]

\* faulty variant: chime without its isChiming guard
chimeUnguarded(s, count) ==
  IF s.audioBell = "none" THEN s
  ELSE LET s1 == [s EXCEPT !.isChiming = TRUE,
                           !.chimeLog = <<>>, !.chimeCount = count,
                           !.chimeQ = Append(@, [count |-> count, i |-> 0,
                                                 at |-> "new", aged |-> FALSE])]
       IN chimeLoop(s1, Len(s1.chimeQ))

\* ChimesManager.chime up to its first await
chime(s, count) ==
  IF s.isChiming \/ s.audioBell = "none" THEN s
  ELSE LET s1 == [s EXCEPT !.isChiming = TRUE,
                           !.chimeLog = <<>>, !.chimeCount = count,
                           !.chimeQ = Append(@, [count |-> count, i |-> 0,
                                                 at |-> "new", aged |-> FALSE])]
       IN chimeLoop(s1, Len(s1.chimeQ))

\* faulty variant: no catch, a rejected play() sets no timer and the
\* promise of playBell never resolves
playSettledNoCatch(s, k, outcome) ==
  IF outcome = "resolved"
    THEN [s EXCEPT !.bellCue = "asset", !.chimeQ[k].at = "ring",
                   !.lastOp = "bell_" \o outcome]
    ELSE [s EXCEPT !.chimeQ[k].at = "never", !.lastOp = "bell_" \o outcome]

\* audioBell.play() of the chime call k settles: then, or catch with the
\* synthesized bell; both set the 1000 ms timer
playSettled(s, k, outcome) ==
  LET s1 == IF outcome = "resolved" THEN [s EXCEPT !.bellCue = "asset"]
                                    ELSE playSynthBell(s)
  IN [s1 EXCEPT !.chimeQ[k].at = "ring", !.lastOp = "bell_" \o outcome]

\* faulty variant: a delay after every strike, the last one too
bellRungAlwaysWaits(s, k) ==
  [s EXCEPT !.chimeQ[k].at = "wait",
            !.chimeLog = Append(@, "wait"),
            !.lastOp = "bell_rung"]

\* the 1000 ms timer of playBell: its promise resolves and the chime call k
\* goes on, into the delay or, after the last strike, out of the loop
bellRung(s, k) ==
  LET s1 == [s EXCEPT !.lastOp = "bell_rung"]
  IN IF s.chimeQ[k].i < s.chimeQ[k].count - 1
       THEN [s1 EXCEPT !.chimeQ[k].at = "wait",
                       !.chimeLog = Append(@, "wait")]
       ELSE chimeLoop([s1 EXCEPT !.chimeQ[k].i = @ + 1], k)

\* the bellDelay timer of the chime call k: the next round of the loop
waitDone(s, k) ==
  chimeLoop([s EXCEPT !.chimeQ[k].i = @ + 1, !.lastOp = "wait_done"], k)

\* faulty variant: checkTime that marks the hour before it looks at
\* isChiming
checkTimeMarksFirst(s) ==
  LET hours == s.hour
      minutes == s.minute
      s0 == [s EXCEPT !.polledAtZero = @ \/ minutes = 0,
                      !.heldBack = @ \/ (minutes = 0 /\ hours # s.lastChimeHour
                                           /\ s.isChiming)]
  IN IF minutes = 0 /\ hours # s.lastChimeHour
       THEN LET s1 == [s0 EXCEPT !.lastChimeHour = hours,
                                 !.lastOp = IF s.isChiming THEN "poll_skip"
                                                           ELSE "poll_chime"]
                s2 == chime(s1, getChimeCount(hours))
            IN [s2 EXCEPT !.hourlyStarts =
                            IF ~s.isChiming /\ s2.isChiming /\ Len(@) < 2
                              THEN Append(@, s2.chimeCount) ELSE @]
       ELSE [s0 EXCEPT !.lastOp = "poll_skip"]

\* ChimesManager.checkTime, with now = the wall clock
checkTime(s) ==
  LET hours == s.hour
      minutes == s.minute
      s0 == [s EXCEPT !.polledAtZero = @ \/ minutes = 0,
                      !.heldBack = @ \/ (minutes = 0 /\ hours # s.lastChimeHour
                                           /\ s.isChiming)]
  IN IF minutes = 0 /\ hours # s.lastChimeHour /\ ~s.isChiming
       THEN LET s1 == [s0 EXCEPT !.lastChimeHour = hours, !.lastOp = "poll_chime"]
                s2 == chime(s1, getChimeCount(hours))
            IN [s2 EXCEPT !.hourlyStarts =
                            IF s2.isChiming /\ Len(@) < 2
                              THEN Append(@, s2.chimeCount) ELSE @]
       ELSE [s0 EXCEPT !.lastOp = "poll_skip"]

\* ChimesManager.start
chimesStart(s) == [checkTime(s) EXCEPT !.checkInterval = TRUE]

\* faulty variant: a test chime that marks the hour as chimed
testChimeMarksHour(s, count) ==
  LET s1 == chime([s EXCEPT !.lastChimeHour = s.hour], count)
  IN [s1 EXCEPT !.lastOp = IF s.isChiming \/ s.audioBell = "none"
                             THEN "test_ignored" ELSE "test_chime"]

\* ChimesManager.testChime
testChime(s, count) ==
  LET s1 == chime(s, count)
  IN [s1 EXCEPT !.lastOp = IF s.isChiming \/ s.audioBell = "none"
                             THEN "test_ignored" ELSE "test_chime"]

\* the keydown listener, T: three strikes
tKey(s) == testChime(s, 3)

\* faulty variant: the B key without the || 12
bKeyNoWrap(s) == testChime(s, s.hour % 12)

\* the keydown listener, B: new Date().getHours() % 12 || 12
bKey(s) ==
  LET hr == IF s.hour % 12 = 0 THEN 12 ELSE s.hour % 12
  IN testChime(s, hr)

\* The wall clock moves on by a minute.  A chime sequence is shorter than a
\* minute (at most 12 strikes of 1 s and 11 delays of 1.92 s): each call
\* sees at most one minute end.
timePasses(s) ==
  LET s1 == [s EXCEPT !.chimeQ = [k \in DOMAIN @ |-> [@[k] EXCEPT !.aged = TRUE]],
                      !.lastOp = "time"]
  IN IF s.minute < LastMinute
       THEN [s1 EXCEPT !.minute = @ + 1]
       ELSE [s1 EXCEPT !.hour = (@ + 1) % 24, !.minute = 0,
                       !.hourlyStarts = <<>>,
                       !.boundary = s.checkInterval,
                       !.polledAtZero = FALSE,
                       !.heldBack = FALSE]

(* -------------------------------- loading ------------------------------ *)

\* the folders in the order in which loadAllFacts fetches their facts
folders == <<"2025", "1969", "1751", "423bce", "2026">>

\* TimeMachine.init awaits the manifest, then the facts of folders[k], then
\* runs on; it is halted when an exception has left it
AtManifest == 0
Loaded == Len(folders) + 1
Halted == -1

\* what the fetch of images/manifest.json gives: a rejection (of fetch or of
\* response.json()), or the folders for which it lists files
ManifestResponses ==
  {[ok |-> FALSE, listed |-> {}]}
    \cup {[ok |-> TRUE, listed |-> m] : m \in {Folders, {"1969", "423bce"}}}

\* what the fetch of a facts file gives: a rejection, or a text, given by
\* its lines (text.split('\n')): an empty and a blank line; three facts,
\* one of them twice, with padding and an empty line
FactsResponses ==
  {[ok |-> FALSE, text |-> <<>>],
   [ok |-> TRUE, text |-> <<"", "  ">>],
   [ok |-> TRUE, text |-> <<" a ", "", "b", "a">>]}

\* String.prototype.trim, on the lines of these texts
trim(line) ==
  CASE line = "  " -> ""
    [] line = " a " -> "a"
    [] OTHER -> line

\* TimeMachine.loadManifest
loadManifest(s, response) ==
  IF response.ok THEN [s EXCEPT !.manifest = response.listed]
                 ELSE [s EXCEPT !.manifest = {}]

\* faulty variant: loadAllFacts without its try and catch
loadFactsUncaught(v, response) ==
  LET folder == folders[v.loading]
      lines == SelectSeq([n \in DOMAIN response.text |-> trim(response.text[n])],
                         LAMBDA line : line # "")
  IN IF response.ok THEN [v EXCEPT !.facts = (folder :> lines) @@ @, !.loading = @ + 1]
                    ELSE [v EXCEPT !.loading = Halted]

\* one round of the loop of TimeMachine.loadAllFacts, for folders[v.loading]
loadFacts(v, response) ==
  LET folder == folders[v.loading]
      lines == IF response.ok
                 THEN SelectSeq([n \in DOMAIN response.text |-> trim(response.text[n])],
                                LAMBDA line : line # "")
                 ELSE <<"Temporal data unavailable for this era.">>
  IN [v EXCEPT !.facts = (folder :> lines) @@ @, !.loading = @ + 1]

(* -------------------------------- the page ----------------------------- *)

\* the labels of #status-text
Recharging == "TEMPORAL CORE RECHARGING"
Locked == "TEMPORAL COORDINATES LOCKED"
Transit == "TEMPORAL TRANSIT IN PROGRESS"

\* TimeMachine.updateStatusText
\* faulty variant: the status is written at every call
updateStatusTextEveryTime(v, currentMinutes) ==
  LET newStatus == IF currentMinutes < 30 THEN Recharging ELSE Locked
  IN [v EXCEPT !.statusText.textContent = newStatus,
               !.statusText.wrote = TRUE]

\* TimeMachine.updateStatusText
updateStatusText(v, currentMinutes) ==
  LET newStatus == IF currentMinutes < 30 THEN Recharging ELSE Locked
  IN IF v.statusText.textContent # newStatus
       THEN [v EXCEPT !.statusText.textContent = newStatus,
                      !.statusText.wrote = TRUE]
       ELSE [v EXCEPT !.statusText.wrote = FALSE]

\* faulty variant: a swap that loses the element at i
swapOverwrites(array, i, j) == [array EXCEPT ![i] = array[j]]

\* [array[i], array[j]] = [array[j], array[i]]
swap(array, i, j) == [array EXCEPT ![i] = array[j], ![j] = array[i]]

\* the loop of shuffleArray from position i down (positions count from 1):
\* the arrays it can leave, one for each run of Math.random()
RECURSIVE shuffleFrom(_, _)
shuffleFrom(array, i) ==
  IF i <= 1 THEN {array}
  ELSE UNION {shuffleFrom(swap(array, i, j), i - 1) : j \in 1..i}

\* TimeMachine.shuffleArray
shuffleArray(array) == shuffleFrom(array, Len(array))

\* the separator of the ticker, a diamond between two spaces
separator == " <> "

\* Array.prototype.join; a text is the sequence of its pieces
RECURSIVE join(_, _)
join(array, sep) ==
  IF array = <<>> THEN <<>>
  ELSE IF Len(array) = 1 THEN <<array[1]>>
  ELSE <<array[1], sep>> \o join(Tail(array), sep)

\* this.facts[folder] || ['No data available.']
factsOf(v, folder) ==
  IF folder \in DOMAIN v.facts THEN v.facts[folder]
                               ELSE <<"No data available.">>

\* TimeMachine.startFactsRotation, shuffleArray leaving shuffledFacts
startFactsRotation(v, folder, shuffledFacts) ==
  LET allFacts == join(shuffledFacts, separator) \o <<separator>>
  IN [v EXCEPT !.tickerContent = <<allFacts, allFacts>>]

\* what goToYear shows from the line after its fade: the labels, the
\* status, the ticker
arriveShown(v, yearKey, shuffledFacts) ==
  LET yearConfig == years[yearKey]
      v1 == [v EXCEPT !.yearValue.textContent = yearConfig.year,
                      !.yearEra.textContent = yearConfig.era]
      v2 == updateStatusText(v1, v1.minute)
  IN startFactsRotation(v2, yearConfig.folder, shuffledFacts)

\* what WormholeManager.start shows
startShown(v) == [v EXCEPT !.statusText.textContent = Transit]

\* what WormholeManager.stop shows after its flash
stopShown(v) == [v EXCEPT !.statusText.textContent = Locked]

\* what the keydown listener shows for a digit: the wormhole's status when
\* the travel starts
digitKeyShown(v, s, yearKey) ==
  IF digitKey(s, yearKey).lastOp = "digit_travel" THEN startShown(v) ELSE v

\* what updateClock shows at minute currentMinutes: the status of the
\* minute, then the wormhole's when checkScheduledTravel starts a travel
updateClockShown(v, s, currentHour, currentMinutes) ==
  LET v1 == updateStatusText([v EXCEPT !.minute = currentMinutes], currentMinutes)
  IN IF updateClock(s, currentHour).lastOp = "tick_travel" THEN startShown(v1)
                                                           ELSE v1

\* what init shows: startClock's updateClock, then goToYear(1, false)
initShown(v, s, shuffledFacts) ==
  arriveShown(updateClockShown(v, s, s.hour, v.minute), 1, shuffledFacts)

\* faulty variant: the stored original texts are left as they are
syncYearDisplayTextOnly(v, yearKey) ==
  IF yearKey \notin DOMAIN years THEN v
  ELSE LET yearConfig == years[yearKey]
       IN [v EXCEPT !.yearValue.textContent = yearConfig.year,
                    !.yearEra.textContent = yearConfig.era]

\* TimeMachine.syncYearDisplay
syncYearDisplay(v, yearKey) ==
  IF yearKey \notin DOMAIN years THEN v
  ELSE LET yearConfig == years[yearKey]
       IN [v EXCEPT !.yearValue.textContent = yearConfig.year,
                    !.yearEra.textContent = yearConfig.era,
                    !.yearValue.originalText = yearConfig.year,
                    !.yearEra.originalText = yearConfig.era]

\* a text with glitch characters in it
Garbled == "garbled"

\* GlitchManager.scrambleElement up to its setInterval, as called by
\* doTextScramble for the element it picked; scrambleText is the const
\* originalText that the interval's callback keeps
scrambleElement(v, element) ==
  IF v[element].scrambling THEN v
  ELSE LET v1 == IF v[element].originalText = NoText
                   THEN [v EXCEPT ![element].originalText = v[element].textContent]
                   ELSE v
       IN [v1 EXCEPT ![element].scrambleText = v1[element].originalText,
                     ![element].scrambling = TRUE]

\* a round of scrambleElement's interval before the last: each character
\* of the kept text is replaced or kept
scrambleRound(v, element, text) == [v EXCEPT ![element].textContent = text]

\* the last round of the interval: the kept text is put back
scrambleEnd(v, element) ==
  [v EXCEPT ![element].textContent = v[element].scrambleText,
            ![element].scrambling = FALSE,
            ![element].scrambleText = NoText]

(* ------------------------------- actions ------------------------------- *)

\* outcomes of loadManifest: the fetch fails (every folder empty), or the
\* manifest lists files for every folder, or for some
ManifestChoices == {{}, Folders, {"1969", "423bce"}}

\* the fields as the constructors leave them
Constructed ==
  /\ isInitialized = FALSE
  /\ mediaItems = <<>> /\ currentIndex = 0 /\ isVideoPlaying = FALSE
  /\ timers = 0 /\ video = "idle" /\ imageLoads = 0
  /\ manifest = {}
  /\ currentYearKey = 1
  /\ pendingYearKey = NoKey
  /\ lastScheduledHour = NoHour
  /\ isActive = FALSE
  /\ targetYear = NoText
  /\ intervalId = FALSE
  /\ currentYear = NoText
  /\ holdQ = <<>>
  /\ flashQ = <<>>
  /\ arriveQ = <<>>
  /\ lastOp = "new"
  /\ autoStartsInRun = 0
  /\ startWhileActive = FALSE
  /\ checkInterval = FALSE
  /\ lastChimeHour = NeverChimed
  /\ isChiming = FALSE
  /\ chimeQ = <<>>
  /\ bellCue = "none"
  /\ synthWormhole = FALSE
  /\ wormholeCue = "none"
  /\ arrivalCue = "none"
  /\ rotationInterval = FALSE
  /\ particleInterval = FALSE
  /\ stopLog = <<>>
  /\ chimeLog = <<>>
  /\ chimeCount = 0
  /\ hourlyStarts = <<>>
  /\ boundary = FALSE
  /\ polledAtZero = FALSE
  /\ heldBack = FALSE
  /\ loading = AtManifest
  /\ facts = <<>>
  /\ tickerContent = <<>>
  /\ statusText = [textContent |-> MarkupText, originalText |-> NoText,
                   scrambling |-> FALSE, scrambleText |-> NoText, wrote |-> FALSE]
  /\ yearValue = [textContent |-> MarkupText, originalText |-> NoText,
                  scrambling |-> FALSE, scrambleText |-> NoText]
  /\ yearEra = [textContent |-> MarkupText, originalText |-> NoText]

\* the page is opened at any hour; the sound side is not followed
Init ==
  /\ Constructed
  /\ hour \in Hours
  /\ minute = 0
  /\ audioBell = "ready" /\ audioWormhole = "ready" /\ audioArrival = "ready"

\* a step of the travel side
Step(s) ==
  WithinBounds(s) /\ Commit(s) /\ UNCHANGED <<soundVars, viewVars, playerVars>>

\* a step of the sound side
SoundStep(s) ==
  /\ Len(s.chimeQ) <= MaxTasks
  /\ CommitSound(s)
  /\ hour' = s.hour /\ lastOp' = s.lastOp
  /\ UNCHANGED <<isInitialized, manifest, travelVars, wormholeVars,
                 slideshowVars, taskVars, autoStartsInRun, startWhileActive,
                 viewVars, playerVars>>

\* a step of the wormhole engine, which is of both
EngineStep(s, snd) ==
  /\ WithinBounds(s) /\ Commit(s) /\ CommitSound(snd)
  /\ UNCHANGED <<viewVars, playerVars>>

PageInit == ~isInitialized /\ \E m \in ManifestChoices : Step(init(Now, m))

DigitKey(yearKey) == isInitialized /\ Step(digitKey(Now, yearKey))

SpaceKey == isInitialized /\ Step(spaceKey(Now))

\* The one-second tick of startClock.  The wall clock is read at the ticks:
\* a tick finds the hour of the tick before it, or the next hour.
ClockTick(currentHour) == isInitialized /\ Step(updateClock(Now, currentHour))

\* The fade of an earlier arrival (200 ms) was set before any hold (4000 ms)
\* or flash (500 ms) now running, so it expires first.
HoldTimer ==
  /\ holdQ # <<>>
  /\ arriveQ = <<>>
  /\ Step(holdFinished(Now))

FlashDone ==
  /\ flashQ # <<>>
  /\ arriveQ = <<>>
  /\ Step(flashFinished(Now))

FadeTimer ==
  /\ arriveQ # <<>>
  /\ Step([arrive([Now EXCEPT !.arriveQ = Tail(@)], Head(arriveQ))
             EXCEPT !.lastOp = "faded"])

Next ==
  \/ PageInit
  \/ \E yearKey \in Periods : DigitKey(yearKey)
  \/ SpaceKey
  \/ \E currentHour \in {hour, (hour + 1) % 24} : ClockTick(currentHour)
  \/ HoldTimer
  \/ FlashDone
  \/ FadeTimer

Spec == Init /\ [][Next]_vars

\* The runs of one evening, for the properties of progress: the page is
\* opened in the hour EveningStart and watched for EveningHours hours.
\* Timers expire and the flash animation finishes: the browser runs every
\* setTimeout callback and every animation's onfinish that stays due.
Evening == {(EveningStart + i) % 24 : i \in 0..(EveningHours - 1)}

FairInit == Init /\ hour = EveningStart

FairNext ==
  \/ PageInit
  \/ \E yearKey \in Periods : DigitKey(yearKey)
  \/ SpaceKey
  \/ \E currentHour \in {hour, (hour + 1) % 24} \cap Evening : ClockTick(currentHour)
  \/ HoldTimer
  \/ FlashDone
  \/ FadeTimer

FairSpec ==
  /\ FairInit
  /\ [][FairNext]_vars
  /\ WF_vars(HoldTimer) /\ WF_vars(FlashDone) /\ WF_vars(FadeTimer)

(* ------------------------ the chime engine's runs ---------------------- *)

\* the page is opened at any time, with any bell element
ChimeInit ==
  /\ Constructed
  /\ hour \in Hours
  /\ minute \in 0..LastMinute
  /\ audioBell \in AudioStates
  /\ audioWormhole = "ready" /\ audioArrival = "ready"

\* chimesManager.start() of TimeMachine.init
ChimeStart == ~checkInterval /\ SoundStep(chimesStart(Sound))

\* the 30 s poll
Poll == checkInterval /\ SoundStep(checkTime(Sound))

TKey == checkInterval /\ SoundStep(tKey(Sound))

BKey == checkInterval /\ SoundStep(bKey(Sound))

PlaySettles(k, outcome) ==
  /\ k \in DOMAIN chimeQ /\ chimeQ[k].at = "play"
  /\ outcome \in playOutcomes(audioBell)
  /\ SoundStep(playSettled(Sound, k, outcome))

BellRung(k) ==
  /\ k \in DOMAIN chimeQ /\ chimeQ[k].at = "ring"
  /\ SoundStep(bellRung(Sound, k))

WaitDone(k) ==
  /\ k \in DOMAIN chimeQ /\ chimeQ[k].at = "wait"
  /\ SoundStep(waitDone(Sound, k))

\* The poll comes every 30 s: minute 0 does not end without one.
TimePasses ==
  /\ (checkInterval /\ minute = 0) => polledAtZero
  /\ \A k \in DOMAIN chimeQ : ~chimeQ[k].aged
  /\ SoundStep(timePasses(Sound))

ChimeNext ==
  \/ ChimeStart
  \/ Poll
  \/ TKey
  \/ BKey
  \/ \E k \in 1..MaxTasks, outcome \in {"resolved", "rejected"} : PlaySettles(k, outcome)
  \/ \E k \in 1..MaxTasks : BellRung(k)
  \/ \E k \in 1..MaxTasks : WaitDone(k)
  \/ TimePasses

ChimeSpec == ChimeInit /\ [][ChimeNext]_vars

\* The chime engine with its timers and promises: the 1000 ms timer of a
\* strike and the bellDelay timer fire, and audioBell.play() settles.
ChimeFairness ==
  /\ WF_vars(\E k \in 1..MaxTasks, outcome \in {"resolved", "rejected"} :
               PlaySettles(k, outcome))
  /\ WF_vars(\E k \in 1..MaxTasks : BellRung(k))
  /\ WF_vars(\E k \in 1..MaxTasks : WaitDone(k))

\* the page is watched until the end of the first hour that began while
\* the poll was running
TimePassesTonight ==
  /\ minute = LastMinute => ~boundary
  /\ TimePasses

FairChimeNext ==
  \/ ChimeStart
  \/ Poll
  \/ TKey
  \/ BKey
  \/ \E k \in 1..MaxTasks, outcome \in {"resolved", "rejected"} : PlaySettles(k, outcome)
  \/ \E k \in 1..MaxTasks : BellRung(k)
  \/ \E k \in 1..MaxTasks : WaitDone(k)
  \/ TimePassesTonight

FairChimeSpec == ChimeInit /\ [][FairChimeNext]_vars /\ ChimeFairness

(* --------------------------- the sound cues' runs ---------------------- *)

\* the page with any three audio elements, opened in minute 0 of an hour:
\* the first poll rings the hour, the T key rings the bell later
CueInit ==
  /\ Constructed
  /\ hour = EveningStart
  /\ minute = 0
  /\ audioBell \in AudioStates
  /\ audioWormhole \in AudioStates
  /\ audioArrival \in AudioStates

\* the travels of these runs go back and forth between 2025 and 1969
CueKeys == {1, 2}

\* a travel toward P starts the engine (initiateTimeTravel or
\* initiateAutomaticTimeTravel, which call start while it is not active):
\* WormholeManager.start, its flag and label and its sound
EngineStart(P) ==
  /\ ~isActive /\ P # currentYearKey
  /\ EngineStep([wormholeStart(Now, years[P].display) EXCEPT !.lastOp = "engine_start"],
                startEffects(Sound))

\* the travel's caller stops the engine and awaits the stop:
\* WormholeManager.stop up to its flash, with its sounds
EngineStop ==
  /\ isActive /\ flashQ = <<>>
  /\ \E P \in Periods :
       /\ years[P].display = targetYear
       /\ EngineStep([wormholeStop(Now, [by |-> "manual", key |-> P])
                        EXCEPT !.lastOp = "engine_stop"],
                     stopEffects(Sound))

\* the flash of the running stop finishes
FlashEnds ==
  /\ flashQ # <<>>
  /\ arriveQ = <<>>
  /\ EngineStep(flashFinished(Now), flashEnded(Sound))

LoopSettles(outcome) ==
  /\ wormholeCue \in {"pending", "aborted"}
  /\ outcome \in playOutcomes(audioWormhole)
  /\ wormholeCue = "aborted" => outcome = "rejected"
  /\ SoundStep(wormholePlaySettled(Sound, outcome))

ArrivalSettles(outcome) ==
  /\ arrivalCue = "pending"
  /\ outcome \in playOutcomes(audioArrival)
  /\ SoundStep(arrivalPlaySettled(Sound, outcome))

CueNext ==
  \/ \E P \in CueKeys : EngineStart(P)
  \/ EngineStop
  \/ \E outcome \in {"resolved", "rejected"} : LoopSettles(outcome)
  \/ \E outcome \in {"resolved", "rejected"} : ArrivalSettles(outcome)
  \/ FlashEnds
  \/ FadeTimer
  \/ ChimeStart
  \/ TKey
  \/ \E k \in 1..MaxTasks, outcome \in {"resolved", "rejected"} : PlaySettles(k, outcome)
  \/ \E k \in 1..MaxTasks : BellRung(k)
  \/ \E k \in 1..MaxTasks : WaitDone(k)

CueSpec == CueInit /\ [][CueNext]_vars

(* ----------------------- travel and chimes together ------------------- *)

\* TimeMachine.init after its fetches: chimesManager.start(), startClock,
\* goToYear(1, false)
PageOpens ==
  /\ ~isInitialized
  /\ WithinBounds(Now)
  /\ Commit(init(Now, Folders))
  /\ CommitSound(chimesStart(Sound))
  /\ UNCHANGED <<viewVars, playerVars>>

\* faulty variant: the tick is held while a chime sequence is in progress
ClockTickWhenQuiet == ~isChiming /\ ClockTick(hour)

\* the one-second tick of startClock reads the wall clock
ClockTickNow == isInitialized /\ ClockTick(hour)

\* the wall clock, from the opening of the page
TimePassesOpen == isInitialized /\ TimePassesTonight

\* The page is opened in the last minute of the hour before the first
\* scheduled one and watched over the hour boundary, with its keys, its
\* timers and the poll.
BothInit ==
  /\ Constructed
  /\ hour = EveningStart
  /\ minute = LastMinute
  /\ audioBell = "ready" /\ audioWormhole = "ready" /\ audioArrival = "ready"

\* the digit pressed in these runs: 1969, from where the schedule of
\* eight o'clock travels back to 2025
BothKey == 2

BothNext ==
  \/ PageOpens
  \/ DigitKey(BothKey)
  \/ SpaceKey
  \/ ClockTickNow
  \/ HoldTimer
  \/ FlashDone
  \/ FadeTimer
  \/ Poll
  \/ TKey
  \/ \E k \in 1..MaxTasks, outcome \in {"resolved", "rejected"} : PlaySettles(k, outcome)
  \/ \E k \in 1..MaxTasks : BellRung(k)
  \/ \E k \in 1..MaxTasks : WaitDone(k)
  \/ TimePassesOpen

BothSpec == BothInit /\ [][BothNext]_vars

(* ----------------------------- the page's runs ------------------------- *)

\* a step of travel together with what it shows
ViewStep(s, v) ==
  /\ WithinBounds(s) /\ Commit(s) /\ CommitView(v)
  /\ minute' = v.minute
  /\ UNCHANGED <<chimeVars, cueVars, chimeHistoryVars, playerVars>>

\* a step of init before its listeners and timers exist
LoadStep(s, v) == ViewStep([s EXCEPT !.lastOp = "fetched"], v)

\* the fetch of the manifest settles
LoadManifest(response) ==
  /\ loading = AtManifest
  /\ LoadStep(loadManifest(Now, response), [View EXCEPT !.loading = 1])

\* the fetch of the next facts file settles
LoadFacts(response) ==
  /\ loading \in DOMAIN folders
  /\ LoadStep(Now, loadFacts(View, response))

\* the rest of init, in the task in which the last fetch settled: the
\* listeners, the chimes, the clock, the starting year
PageLoaded ==
  /\ loading = Loaded /\ ~isInitialized
  /\ \E shuffledFacts \in shuffleArray(factsOf(View, years[1].folder)) :
       /\ WithinBounds(Now)
       /\ Commit(init(Now, manifest))
       /\ CommitView(initShown(View, Now, shuffledFacts))
       /\ CommitSound(chimesStart(Sound))
       /\ UNCHANGED playerVars

DigitShown(yearKey) ==
  /\ isInitialized
  /\ ViewStep(digitKey(Now, yearKey), digitKeyShown(View, Now, yearKey))

SpaceShown == isInitialized /\ ViewStep(spaceKey(Now), View)

HoldShown ==
  /\ holdQ # <<>>
  /\ arriveQ = <<>>
  /\ ViewStep(holdFinished(Now), View)

FlashShown ==
  /\ flashQ # <<>>
  /\ arriveQ = <<>>
  /\ ViewStep(flashFinished(Now), stopShown(View))

FadeShown ==
  /\ arriveQ # <<>>
  /\ \E shuffledFacts \in shuffleArray(factsOf(View, years[Head(arriveQ)].folder)) :
       ViewStep([arrive([Now EXCEPT !.arriveQ = Tail(@)], Head(arriveQ))
                   EXCEPT !.lastOp = "faded"],
                arriveShown(View, Head(arriveQ), shuffledFacts))

\* The runs of loading: the page is opened in an hour of the evening, after
\* minute 0; every fetch settles one way or the other; then the keys and
\* the timers of travel, with no further clock tick.  The viewer goes
\* through the periods in turn: the digit pressed is that of the current
\* period or of the one after it.
LoadInit ==
  /\ Constructed
  /\ hour \in Evening
  /\ minute = LastMinute
  /\ audioBell = "ready" /\ audioWormhole = "ready" /\ audioArrival = "ready"

LoadNext ==
  \/ \E response \in ManifestResponses : LoadManifest(response)
  \/ \E response \in FactsResponses : LoadFacts(response)
  \/ PageLoaded
  \/ \E yearKey \in {currentYearKey, (currentYearKey % 5) + 1} : DigitShown(yearKey)
  \/ SpaceShown
  \/ HoldShown
  \/ FlashShown
  \/ FadeShown

LoadSpec == LoadInit /\ [][LoadNext]_vars

(* ---------------------------- the slideshow's runs -------------------- *)

\* the most media items of a folder
MaxMedia == 2

\* the most image loads that have not settled
MaxLoads == 2

\* the lists of media that shuffleArray can leave: isVideo of each item
MediaLists ==
  UNION {[1..n -> BOOLEAN] : n \in 0..MaxMedia}

\* a step of the slideshow
SlideStep(sl, op) ==
  /\ sl.imageLoads <= MaxLoads
  /\ intervalId' = sl.intervalId /\ currentYear' = sl.currentYear
  /\ mediaItems' = sl.mediaItems /\ currentIndex' = sl.currentIndex
  /\ isVideoPlaying' = sl.isVideoPlaying /\ timers' = sl.timers
  /\ video' = sl.video /\ imageLoads' = sl.imageLoads
  /\ lastOp' = op
  /\ UNCHANGED <<isInitialized, hour, manifest, travelVars, wormholeVars,
                 taskVars, autoStartsInRun, startWhileActive, soundVars, viewVars>>

\* goToYear's slideshow.loadYear(folder, mediaList)
LoadYear(yearKey, shuffledItems) ==
  /\ Len(shuffledItems) <= MaxMedia
  /\ SlideStep(loadYearMedia(Slides, yearKey, shuffledItems), "load")

\* initiateTimeTravel's and initiateAutomaticTimeTravel's slideshow.pause()
\* (after init has loaded the first folder)
Pause == currentYear # NoText /\ SlideStep(pause(Slides), "pause")

Resume == currentYear # NoText /\ SlideStep(resume(Slides), "resume")

AutoAdvance == timers > 0 /\ SlideStep(autoAdvance(Slides), "advance")

ImageLoaded == imageLoads > 0 /\ SlideStep(imageLoaded(Slides), "image")

ImageFailed == imageLoads > 0 /\ SlideStep(imageFailed(Slides), "image_failed")

VideoStarted == video = "starting" /\ SlideStep(videoStarted(Slides), "video")

VideoFailed == video = "starting" /\ SlideStep(videoFailed(Slides), "video_failed")

VideoEnded == video = "playing" /\ SlideStep(onVideoEnded(Slides), "ended")

SlideInit ==
  /\ Constructed
  /\ hour = EveningStart
  /\ minute = 0
  /\ audioBell = "ready" /\ audioWormhole = "ready" /\ audioArrival = "ready"

SlideNext ==
  \/ \E yearKey \in {years[k].folder : k \in CueKeys}, shuffledItems \in MediaLists :
       LoadYear(yearKey, shuffledItems)
  \/ Pause
  \/ Resume
  \/ AutoAdvance
  \/ ImageLoaded
  \/ ImageFailed
  \/ VideoStarted
  \/ VideoFailed
  \/ VideoEnded

SlideSpec == SlideInit /\ [][SlideNext]_vars

(* ---------------------------- what the page shows ---------------------- *)

\* the minutes of the hour at which the clock's ticks come
TickMinutes == {29, 30}

\* the one-second tick of startClock, at currentHour:currentMinutes, not
\* before the time of the tick before it
TickShown(currentHour, currentMinutes) ==
  /\ isInitialized
  /\ currentHour = hour => currentMinutes >= minute
  /\ ViewStep(updateClock(Now, currentHour),
              updateClockShown(View, Now, currentHour, currentMinutes))

\* the 30 s timer of startClock
SyncYearDisplay ==
  /\ isInitialized
  /\ ViewStep([Now EXCEPT !.lastOp = "sync"], syncYearDisplay(View, currentYearKey))

\* glitchManager's timer (or the G key) picks the text scramble and the
\* element
ScrambleStarts(element) ==
  /\ isInitialized
  /\ ViewStep([Now EXCEPT !.lastOp = "scramble"], scrambleElement(View, element))

\* the 50 ms interval of a running scramble
ScrambleRound(element) ==
  /\ View[element].scrambling
  /\ \E text \in {Garbled, View[element].scrambleText} :
       ViewStep([Now EXCEPT !.lastOp = "scrambled"], scrambleRound(View, element, text))

ScrambleEnds(element) ==
  /\ View[element].scrambling
  /\ ViewStep([Now EXCEPT !.lastOp = "restored"], scrambleEnd(View, element))

\* The runs of the display: the fetches are over (the manifest lists
\* media for every folder, no facts file could be fetched), the page is
\* opened in the hour EveningStart and watched for EveningHours hours,
\* with travels between 2025 and 1969.
ShowInit ==
  /\ Constructed
  /\ hour = EveningStart
  /\ minute \in TickMinutes
  /\ audioBell = "ready" /\ audioWormhole = "ready" /\ audioArrival = "ready"

\* the steps of the page other than a scramble are the disjuncts listed
\* in both runs; the scramble hits the status line in the first and the
\* year label in the second
StatusNext ==
  \/ LoadManifest([ok |-> TRUE, listed |-> Folders])
  \/ LoadFacts([ok |-> FALSE, text |-> <<>>])
  \/ PageLoaded
  \/ \E yearKey \in CueKeys : DigitShown(yearKey)
  \/ SpaceShown
  \/ \E currentHour \in {hour, (hour + 1) % 24} \cap Evening, currentMinutes \in TickMinutes :
       TickShown(currentHour, currentMinutes)
  \/ HoldShown
  \/ FlashShown
  \/ FadeShown
  \/ SyncYearDisplay
  \/ ScrambleStarts("statusText")
  \/ ScrambleRound("statusText")
  \/ ScrambleEnds("statusText")

StatusSpec == ShowInit /\ [][StatusNext]_vars

\* the digits pressed in the runs of the year label: a period CE and the
\* period BCE
LabelKeys == {2, 4}

LabelNext ==
  \/ LoadManifest([ok |-> TRUE, listed |-> Folders])
  \/ LoadFacts([ok |-> FALSE, text |-> <<>>])
  \/ PageLoaded
  \/ \E yearKey \in LabelKeys : DigitShown(yearKey)
  \/ SpaceShown
  \/ \E currentHour \in {hour, (hour + 1) % 24} \cap Evening, currentMinutes \in TickMinutes :
       TickShown(currentHour, currentMinutes)
  \/ HoldShown
  \/ FlashShown
  \/ FadeShown
  \/ SyncYearDisplay
  \/ ScrambleStarts("yearValue")
  \/ ScrambleRound("yearValue")
  \/ ScrambleEnds("yearValue")

LabelSpec == ShowInit /\ [][LabelNext]_vars

(* ------------------------------- claims -------------------------------- *)

\* C1: a digit key for a period P other than currentYearKey, pressed while
\* the wormhole is inactive, starts an episode: afterwards the wormhole is
\* active and shows P's display label, pendingYearKey = P, the slideshow's
\* auto-advance timer is cleared and currentYearKey is unchanged.
C1_DigitStartsTravel ==
  [][\A P \in Periods :
       (P # currentYearKey /\ ~isActive /\ DigitKey(P))
         => /\ isActive'
            /\ targetYear' = years[P].display
            /\ pendingYearKey' = P
            /\ ~intervalId'
            /\ currentYearKey' = currentYearKey]_vars

\* key 3 pressed at 2025 with the slideshow loaded: travelling to 1751
C1_Witness ==
  /\ lastOp = "digit_travel"
  /\ currentYearKey = 1 /\ pendingYearKey = 3
  /\ isActive /\ targetYear = "1751 CE"
  /\ currentYear = "2025" /\ ~intervalId

\* C2: a digit key for P pressed while the wormhole is active, or with
\* P = currentYearKey, changes neither currentYearKey nor pendingYearKey nor
\* the wormhole's active flag nor its destination label.
C2_DigitIgnored ==
  [][\A P \in Periods :
       ((isActive \/ P = currentYearKey) /\ DigitKey(P))
         => UNCHANGED <<currentYearKey, pendingYearKey, isActive, targetYear,
                        taskVars, slideshowVars>>]_vars

\* a digit pressed while the flash of an automatic travel is running
C2_Witness ==
  /\ lastOp = "digit_ignored"
  /\ isActive
  /\ flashQ # <<>> /\ Head(flashQ).by = "auto"

\* C3: Space is accepted iff the wormhole is active and pendingYearKey is
\* set: then pendingYearKey is cleared and one stop sequence starts for it.
\* In every other state Space changes no travel state and starts no stop
\* sequence; pendingYearKey is empty during an automatic travel and while a
\* flash runs, so those are such states.
C3_SpaceAccepted == isActive /\ pendingYearKey # NoKey

C3_SpaceContract ==
  /\ []((holdQ # <<>> \/ flashQ # <<>>) => pendingYearKey = NoKey)
  /\ [][SpaceKey =>
          IF C3_SpaceAccepted
            THEN /\ pendingYearKey' = NoKey
                 /\ flashQ' = Append(flashQ, [by |-> "manual", key |-> pendingYearKey])
                 /\ UNCHANGED <<currentYearKey, lastScheduledHour, wormholeVars,
                                holdQ, arriveQ, slideshowVars>>
            ELSE UNCHANGED <<travelVars, wormholeVars, taskVars, slideshowVars>>]_vars

\* a second Space pressed while the flash of the first completion runs
C3_Witness ==
  /\ lastOp = "space_ignored"
  /\ isActive
  /\ flashQ # <<>> /\ Head(flashQ).by = "manual"

\* C4: once Space has been accepted in a manual episode toward P (the stop
\* sequence awaited by completeTimeTravel is running), a state follows in
\* which currentYearKey = P, pendingYearKey is empty and the wormhole is
\* inactive, whatever ticks and key presses come in between.
C4_ManualCompletes ==
  \A P \in Periods :
    (flashQ # <<>> /\ Head(flashQ) = [by |-> "manual", key |-> P])
      ~> (currentYearKey = P /\ pendingYearKey = NoKey /\ ~isActive)

\* the spec's scenario: key 3 at 2025, Space, and the commit of 1751
C4_Witness ==
  /\ lastOp = "manual_commit"
  /\ currentYearKey = 3 /\ pendingYearKey = NoKey /\ ~isActive
  /\ arriveQ = <<3>>

\* C7: an automatic travel toward T completes by itself: from its hold a
\* state follows in which the wormhole is inactive and currentYearKey = T;
\* and while it is in its hold or its flash no key press changes the travel
\* state, the wormhole or the pending timers.
C7_AutoRunning == holdQ # <<>> \/ (flashQ # <<>> /\ Head(flashQ).by = "auto")

C7_AutoCompletes ==
  /\ \A T \in Periods :
       (holdQ # <<>> /\ Head(holdQ) = T) ~> (~isActive /\ currentYearKey = T)
  /\ [][(C7_AutoRunning /\ (SpaceKey \/ \E P \in Periods : DigitKey(P)))
          => UNCHANGED <<travelVars, wormholeVars, taskVars, slideshowVars>>]_vars

\* the spec's scenario: at 21:00 in 2025 the tick starts the travel to 1969,
\* which has now committed
C7_Witness ==
  /\ lastOp = "auto_commit"
  /\ hour = 21 /\ lastScheduledHour = 21
  /\ currentYearKey = 2 /\ ~isActive /\ holdQ = <<>> /\ flashQ = <<>>

\* C5: at most one episode exists at any time.  The episodes in flight are
\* the manual travel waiting for Space (pendingYearKey set), the automatic
\* travels in their hold and the stop sequences whose flash runs; while
\* one exists the wormhole is active, and WormholeManager.start is never
\* called while the wormhole is active.
C5_Episodes ==
  (IF pendingYearKey # NoKey THEN 1 ELSE 0) + Len(holdQ) + Len(flashQ)

C5_OneEpisode ==
  /\ C5_Episodes <= 1
  /\ (C5_Episodes = 1) = isActive
  /\ ~startWhileActive

\* a clock tick in a scheduled hour arrives during a manual travel
C5_Witness ==
  /\ lastOp = "tick_active"
  /\ hour \in DOMAIN schedule /\ schedule[hour] # currentYearKey
  /\ lastScheduledHour # hour
  /\ pendingYearKey # NoKey /\ isActive

\* C6: manual travel never times out.  While pendingYearKey is set the
\* wormhole is active, and every step other than an accepted Space leaves
\* pendingYearKey, currentYearKey, the wormhole's flag and its label as
\* they are.
C6_ManualWaits ==
  /\ [](pendingYearKey # NoKey => isActive)
  /\ [][pendingYearKey # NoKey
          => \/ UNCHANGED <<pendingYearKey, currentYearKey, isActive, targetYear>>
             \/ SpaceKey]_vars

\* a manual travel toward 1751 that started before 21:00 is still waiting
\* after the ticks of 21:00 and of 22:00, the hour scheduled for 1751
C6_Witness ==
  /\ pendingYearKey = 3 /\ isActive /\ targetYear = "1751 CE"
  /\ currentYearKey = 1
  /\ hour = 22 /\ lastOp = "tick_active" /\ lastScheduledHour = 20

\* C8: in a run of clock ticks that report the same hour, at most one
\* automatic travel starts, whatever manual travels happen in between.
C8_OncePerHour == autoStartsInRun <= 1

\* 21:00 fired the travel to 1969, the viewer went back to 2025 by hand, and
\* a later tick of the same hour finds the hour already triggered
C8_Witness ==
  /\ lastOp = "tick_already"
  /\ hour = 21 /\ lastScheduledHour = 21 /\ autoStartsInRun = 1
  /\ currentYearKey = 1 /\ ~isActive

\* C9: a clock tick in an hour h whose schedule entry is currentYearKey,
\* with the wormhole inactive and h not yet marked, sets lastScheduledHour
\* to h and changes nothing else: no wormhole start, no slideshow pause,
\* no change of currentYearKey or pendingYearKey, no new timer.
C9_MarkedOnly ==
  [][\A h \in DOMAIN schedule :
       (~isActive /\ schedule[h] = currentYearKey /\ lastScheduledHour # h
          /\ ClockTick(h))
         => /\ lastScheduledHour' = h
            /\ UNCHANGED <<currentYearKey, pendingYearKey, wormholeVars,
                           slideshowVars, taskVars>>]_vars

\* the spec's scenario: the tick of 20:00 in 2025, slideshow running
C9_Witness ==
  /\ lastOp = "tick_marked"
  /\ hour = 20 /\ lastScheduledHour = 20
  /\ currentYearKey = 1 /\ ~isActive /\ intervalId /\ holdQ = <<>>

\* C10: a clock tick in an hour h with schedule entry T, with the wormhole
\* inactive, lastScheduledHour # h and T # currentYearKey, starts an
\* automatic travel toward T: lastScheduledHour = h, the slideshow's timer
\* is cleared, the wormhole is active on T's label and the hold of this
\* travel is pending.
C10_TickStartsTravel ==
  [][\A h \in DOMAIN schedule :
       (~isActive /\ schedule[h] # currentYearKey /\ lastScheduledHour # h
          /\ ClockTick(h))
         => /\ lastScheduledHour' = h
            /\ ~intervalId'
            /\ isActive' /\ targetYear' = years[schedule[h]].display
            /\ holdQ' = Append(holdQ, schedule[h])
            /\ UNCHANGED <<currentYearKey, pendingYearKey>>]_vars

\* the spec's scenario: the tick of 21:00 in 2025 starts the travel to 1969
C10_Witness ==
  /\ lastOp = "tick_travel"
  /\ hour = 21 /\ lastScheduledHour = 21
  /\ currentYearKey = 1 /\ isActive /\ targetYear = "1969 CE"
  /\ holdQ = <<2>> /\ currentYear = "2025" /\ ~intervalId

\* C11: after every clock tick whose hour has no entry in the schedule,
\* lastScheduledHour is empty.
C11_ResetOnUnscheduledTick ==
  [][\A h \in Hours \ DOMAIN schedule :
       ClockTick(h) => lastScheduledHour' = NoHour]_vars

\* C12: in the manual and in the automatic path the flash of the episode's
\* stop sequence ends before the commit.  While an episode toward D is in
\* flight (waiting for Space, in its hold, or in its flash) currentYearKey
\* is not D and no arrival that would load D's folder is pending; the only
\* step that sets currentYearKey to D or starts D's arrival is the one in
\* which that episode's flash finishes, and the arrival's loadYear comes
\* in a later step.
C12_InFlight(D) ==
  \/ pendingYearKey = D
  \/ \E i \in DOMAIN holdQ : holdQ[i] = D
  \/ \E i \in DOMAIN flashQ : flashQ[i].key = D

C12_FlashBeforeCommit ==
  /\ [](\A D \in Periods :
          C12_InFlight(D)
            => currentYearKey # D /\ \A i \in DOMAIN arriveQ : arriveQ[i] # D)
  /\ [][\A D \in Periods :
          (C12_InFlight(D) /\ (currentYearKey' = D \/ arriveQ' # arriveQ
                                 \/ currentYear' # currentYear))
            => \/ /\ FlashDone /\ Head(flashQ).key = D
                  /\ currentYearKey' = D /\ arriveQ' = Append(arriveQ, D)
                  /\ UNCHANGED slideshowVars
               \/ /\ FadeTimer /\ Head(arriveQ) # D
                  /\ currentYearKey' # D]_vars

\* the flash of the automatic travel to 1969 has just finished: the year is
\* committed and the slideshow still shows 2025 until the fade ends
C12_Witness ==
  /\ lastOp = "auto_commit"
  /\ currentYearKey = 2 /\ arriveQ = <<2>>
  /\ currentYear = "2025" /\ ~isActive /\ flashQ = <<>>

\* C13: while the wormhole is active the slideshow's auto-advance timer is
\* not running.
C13_PausedWhileActive == isActive => ~intervalId

\* C14: currentYearKey changes value only in the step in which the flash of
\* an episode's stop sequence finishes; the new value is the destination of
\* that episode, the one whose label the wormhole has shown since its
\* start, and the wormhole is inactive afterwards.  No key press, clock
\* tick, hold expiry, fade or page initialization changes it.
C14_CommitOnly ==
  [][currentYearKey' # currentYearKey
       => /\ FlashDone
          /\ currentYearKey' = Head(flashQ).key
          /\ years[currentYearKey'].display = targetYear
          /\ ~isActive'
          /\ ~(\E P \in Periods : DigitKey(P))
          /\ ~SpaceKey /\ ~HoldTimer /\ ~FadeTimer /\ ~PageInit
          /\ ~(\E h \in Hours : ClockTick(h))]_vars

\* the midnight travel has committed 2026
C14_Witness ==
  /\ lastOp = "auto_commit"
  /\ hour = 0 /\ currentYearKey = 5 /\ targetYear = "2026 CE"
  /\ ~isActive /\ arriveQ = <<5>>

\* C15: getChimeCount(h) is 12 when h mod 12 = 0 and h mod 12 otherwise,
\* for every hour h of 0..23, and always lies in 1..12; the hourly chime
\* that a poll starts in hour h is started with that count.
C15_ChimeCount ==
  /\ \A h \in Hours :
       /\ getChimeCount(h) \in 1..12
       /\ (h % 12 = 0) => getChimeCount(h) = 12
       /\ (h % 12 # 0) => getChimeCount(h) = h % 12
  /\ (lastOp = "poll_chime" /\ isChiming)
       => chimeCount \in 1..12 /\ chimeCount % 12 = hour % 12

\* the poll at midnight starts a chime of 12 strikes
C15_Witness ==
  /\ lastOp = "poll_chime" /\ isChiming
  /\ hour = 0 /\ minute = 0 /\ lastChimeHour = 0
  /\ chimeCount = 12 /\ chimeQ[1].count = 12

\* C16: a chime sequence started with count N >= 1 plays N strikes and
\* waits N - 1 delays, alternating strike, delay, strike, ...: the log of
\* the sequence alternates from a strike on, it holds i + 1 strikes and i
\* or i + 1 delays in round i of the loop, and 2N - 1 entries once the
\* sequence is over.  A delay begins only in the step in which the promise
\* of the strike before it resolves, and a strike only at the start of the
\* sequence or when a delay ends.
C16_Alternates ==
  /\ [](/\ \A n \in DOMAIN chimeLog :
             chimeLog[n] = IF n % 2 = 1 THEN "strike" ELSE "wait"
        /\ \A k \in DOMAIN chimeQ :
             /\ chimeQ[k].count = chimeCount
             /\ chimeQ[k].i < chimeCount
             /\ Len(chimeLog) = IF chimeQ[k].at = "wait" THEN 2 * chimeQ[k].i + 2
                                                         ELSE 2 * chimeQ[k].i + 1
        /\ (~isChiming /\ chimeCount >= 1) => Len(chimeLog) = 2 * chimeCount - 1)
  /\ [][(chimeLog' # chimeLog /\ chimeLog' # <<>>)
          => /\ Len(chimeLog') = Len(chimeLog) + 1 \/ Len(chimeLog') = 1
             /\ chimeLog'[Len(chimeLog')] = "wait"
                  => \E k \in DOMAIN chimeQ : chimeQ[k].at = "ring" /\ BellRung(k)
             /\ (chimeLog'[Len(chimeLog')] = "strike" /\ Len(chimeLog') > 1)
                  => \E k \in DOMAIN chimeQ : WaitDone(k)]_vars

\* the spec's scenario: the test chime of three strikes has ended
C16_Witness ==
  /\ lastOp = "chime_end" /\ ~isChiming /\ chimeQ = <<>>
  /\ chimeCount = 3
  /\ chimeLog = <<"strike", "wait", "strike", "wait", "strike">>

\* C17: two chime sequences never run at once: at most one chime call is
\* in its loop, and isChiming is set exactly then; a poll or a test key
\* that arrives while isChiming is set starts no strike and leaves the
\* running sequence, its log and lastChimeHour as they are.
C17_OneSequence ==
  /\ [](Len(chimeQ) <= 1 /\ (isChiming <=> chimeQ # <<>>))
  /\ [][(isChiming /\ (Poll \/ TKey \/ BKey))
          => UNCHANGED <<chimeVars, chimeLog, chimeCount, hourlyStarts>>]_vars

\* a test key pressed between two strikes of the hourly chime
C17_Witness ==
  /\ lastOp = "test_ignored"
  /\ isChiming /\ hourlyStarts # <<>>
  /\ Len(chimeQ) = 1 /\ chimeQ[1].at = "wait"

\* C18: every hour that begins while the poll runs is sounded exactly once:
\* never more than one hourly sequence starts in an hour, and when minute 0
\* of such an hour is over, one has started, with getChimeCount(hour)
\* strikes.
C18_SoundedOnce ==
  /\ Len(hourlyStarts) <= 1
  /\ (boundary /\ minute # 0) => hourlyStarts = <<getChimeCount(hour)>>

\* C19: the test keys never change lastChimeHour, whatever the count and
\* whether a sequence is running or not.
C19_TestKeepsHour ==
  [][(TKey \/ BKey) => lastChimeHour' = lastChimeHour]_vars

\* a test chime started in minute 0 of an hour that has not been chimed:
\* the hour stays unmarked
C19_Witness ==
  /\ lastOp = "test_chime" /\ isChiming
  /\ boundary /\ minute = 0 /\ lastChimeHour # hour
  /\ hourlyStarts = <<>>

\* C20: for the wormhole loop, the arrival sound and the bell strike: when
\* the cue is due and its audio element is missing, has no source or could
\* not load it, or when its play() is rejected, the synthesized sound of
\* that cue is played.
C20_SynthFallback ==
  /\ [](/\ (isActive /\ flashQ = <<>> /\ ~hasSource(audioWormhole))
             => wormholeCue = "synth" /\ synthWormhole
        /\ (flashQ # <<>> /\ ~hasSource(audioArrival)) => arrivalCue = "synth")
  /\ [][/\ LoopSettles("rejected") => wormholeCue' = "synth" /\ synthWormhole'
        /\ ArrivalSettles("rejected") => arrivalCue' = "synth"
        /\ \A k \in DOMAIN chimeQ : PlaySettles(k, "rejected") => bellCue' = "synth"
        /\ ((ChimeStart \/ TKey) /\ ~isChiming /\ audioBell # "ready")
             => bellCue' = "synth"]_vars

\* C21: init never halts on a missing resource.  Whatever way the fetch of
\* the manifest and the five fetches of facts settle, init goes on to the
\* next fetch and, after the last, runs to its end: no exception leaves
\* it, and its last step leaves the listeners installed (isInitialized),
\* the chimes' poll and the clock started, period 1 loaded and shown.  A
\* failed fetch of the manifest leaves no media for any of the five
\* folders.
C21_InitCompletes ==
  /\ [](/\ loading # Halted
        /\ loading = AtManifest
             => \A response \in ManifestResponses : ENABLED LoadManifest(response)
        /\ loading \in DOMAIN folders
             => \A response \in FactsResponses : ENABLED LoadFacts(response)
        /\ (loading = Loaded /\ ~isInitialized) => ENABLED PageLoaded
        /\ isInitialized => loading = Loaded)
  /\ [][/\ \A response \in ManifestResponses :
             (LoadManifest(response) /\ ~response.ok)
               => \A folder \in Folders : folder \notin manifest'
        /\ PageLoaded
             => /\ isInitialized' /\ checkInterval'
                /\ hour' = hour
                /\ currentYearKey' = 1 /\ currentYear' = years[1].folder
                /\ yearValue'.textContent = years[1].year
                /\ yearEra'.textContent = years[1].era
                /\ Len(tickerContent') = 2]_vars

\* every fetch has failed and the page is up at 21:00: no media, the
\* default line in the ticker, the scheduled travel to 1969 under way
C21_Witness ==
  /\ isInitialized /\ lastOp = "init" /\ checkInterval
  /\ manifest = {}
  /\ \A folder \in Folders :
       facts[folder] = <<"Temporal data unavailable for this era.">>
  /\ currentYear = "2025" /\ ~intervalId
  /\ tickerContent[1] = <<"Temporal data unavailable for this era.", separator>>
  /\ hour = 21 /\ isActive /\ holdQ = <<2>>

\* C22: for every folder, when the fetch of its facts fails or its text
\* has no line that is not blank, the facts kept for the folder are a
\* single default line; so the ticker, once filled, shows at least one
\* fact whatever the period.
C22_DefaultLine ==
  /\ [][\A response \in FactsResponses :
          (/\ LoadFacts(response)
           /\ \/ ~response.ok
              \/ \A n \in DOMAIN response.text : trim(response.text[n]) = "")
            => Len(facts'[folders[loading]]) = 1]_vars
  /\ [](\A n \in DOMAIN tickerContent :
          \E i \in DOMAIN tickerContent[n] : tickerContent[n][i] # separator)

\* C23: on every arrival (the last step of init and the end of a fade),
\* when the facts F of the period that arrives are not empty, the ticker
\* holds two spans of the same text; the text is Len(F) facts, each
\* followed by the separator, and the facts are those of F, each as often
\* as in F.
C23_Count(array, x) == Cardinality({i \in DOMAIN array : array[i] = x})

C23_TwoCopies ==
  [][(FadeShown \/ PageLoaded)
       => LET F == factsOf(View, currentYear')
              text == tickerContent'[1]
          IN F # <<>>
               => /\ Len(tickerContent') = 2
                  /\ tickerContent'[2] = text
                  /\ Len(text) = 2 * Len(F)
                  /\ \A i \in 1..Len(F) :
                       /\ text[2 * i] = separator
                       /\ text[2 * i - 1] # separator
                       /\ C23_Count(text, text[2 * i - 1]) = C23_Count(F, text[2 * i - 1])
                  /\ \A i \in DOMAIN F : C23_Count(text, F[i]) = C23_Count(F, F[i])]_vars

\* the arrival in 1969, whose file lists a, b, a: the ticker runs b, a, a
C23_Witness ==
  /\ lastOp = "faded" /\ currentYearKey = 2 /\ currentYear = "1969"
  /\ facts["1969"] = <<"a", "b", "a">>
  /\ tickerContent = <<<<"b", separator, "a", separator, "a", separator>>,
                       <<"b", separator, "a", separator, "a", separator>>>>

\* C24: pendingYearKey is set only while the wormhole is active, and the
\* wormhole then shows its label.  It is set in the very step in which
\* the wormhole goes from inactive to active, by a digit key; it is
\* cleared by the Space that starts the stop sequence of its episode,
\* before that stop's flash, with the wormhole still active; no automatic
\* travel sets it, and none of these steps leaves it set with the
\* wormhole inactive.
C24_PendingOnlyActive ==
  /\ [](pendingYearKey # NoKey
          => isActive /\ targetYear = years[pendingYearKey].display)
  /\ [][/\ (pendingYearKey' # pendingYearKey /\ pendingYearKey' # NoKey)
             => /\ pendingYearKey = NoKey
                /\ ~isActive /\ isActive'
                /\ DigitKey(pendingYearKey')
        /\ (pendingYearKey # NoKey /\ pendingYearKey' = NoKey)
             => /\ SpaceKey
                /\ isActive /\ isActive'
                /\ flashQ = <<>>
                /\ flashQ' = <<[by |-> "manual", key |-> pendingYearKey]>>]_vars

\* in the hour whose automatic travel has run, a manual travel back to
\* 2025 is waiting for Space
C24_Witness ==
  /\ lastOp = "digit_travel" /\ pendingYearKey = 1 /\ isActive
  /\ hour = 21 /\ lastScheduledHour = 21 /\ autoStartsInRun = 1
  /\ currentYearKey = 2 /\ holdQ = <<>> /\ flashQ = <<>>

\* C25: every stop sequence runs in this order: rotation and particles
\* halted, loop sound stopped, arrival sound started, flash played, and
\* only when the flash has finished the engine made inactive, the commit
\* of the destination coming last.  While the flash runs the engine is
\* active and both timers are cleared; the engine becomes inactive and
\* currentYearKey changes in no other step than the one that ends the
\* flash, and the slideshow is not reloaded in that step.
C25_StopOrder ==
  /\ [](flashQ # <<>>
          => /\ isActive /\ ~rotationInterval /\ ~particleInterval
             /\ stopLog = <<"rotation off", "particles off", "loop sound off",
                            "arrival sound", "flash">>)
  /\ [][/\ EngineStop => (flashQ' # <<>> /\ UNCHANGED <<currentYearKey, slideshowVars>>)
        /\ FlashEnds
             => /\ ~isActive' /\ currentYearKey' = Head(flashQ).key
                /\ stopLog' = <<"rotation off", "particles off", "loop sound off",
                                "arrival sound", "flash", "inactive", "commit">>
                /\ UNCHANGED slideshowVars
        /\ ((isActive /\ ~isActive') \/ currentYearKey' # currentYearKey)
             => FlashEnds]_vars

\* the stop of the travel to 1969 has run to its end and 1969 is committed
C25_Witness ==
  /\ lastOp = "manual_commit" /\ ~isActive /\ flashQ = <<>>
  /\ currentYearKey = 2 /\ arriveQ = <<2>>
  /\ Len(stopLog) = 7 /\ stopLog[6] = "inactive"
  /\ ~rotationInterval /\ ~particleInterval

\* C26: once a stop sequence has resolved nothing of the transition keeps
\* running: with the engine inactive no rotation timer, no particle timer
\* and no loop sound, from the asset or synthesized, whatever the outcome
\* of the asset's play() and whenever it arrives.
C26_NothingRuns ==
  ~isActive
    => /\ ~rotationInterval /\ ~particleInterval
       /\ ~synthWormhole
       /\ wormholeCue \notin {"asset", "synth"}

\* C27: the stop sequence of an episode runs exactly once.  At most one
\* flash runs at a time; a stop sequence begins only with the wormhole
\* active and no flash running, by the Space of a manual episode or the
\* end of the hold of an automatic one, and leaves no episode waiting for
\* a stop; the wormhole becomes inactive only when that one flash ends,
\* so the episode has no second stop; while the flash runs every step but
\* its end (Space, digits, clock ticks, the fade of an earlier arrival)
\* leaves the flash, the engine and the travel state as they are.
C27_OneStop ==
  /\ [](Len(flashQ) <= 1 /\ (flashQ # <<>> => isActive))
  /\ [][/\ flashQ' # flashQ
             => \/ /\ flashQ = <<>> /\ Len(flashQ') = 1
                   /\ isActive /\ isActive'
                   /\ \/ SpaceKey /\ pendingYearKey = flashQ'[1].key
                      \/ HoldTimer /\ Head(holdQ) = flashQ'[1].key
                   /\ pendingYearKey' = NoKey /\ holdQ' = <<>>
                \/ FlashDone /\ Len(flashQ) = 1 /\ flashQ' = <<>> /\ ~isActive'
        /\ (isActive /\ ~isActive') => (FlashDone /\ Len(flashQ) = 1)
        /\ HoldTimer => isActive
        /\ (flashQ # <<>> /\ ~FlashDone)
             => UNCHANGED <<flashQ, wormholeVars, travelVars, holdQ>>]_vars

\* during the flash of the travel to 1751, Space is pressed again
C27_Witness ==
  /\ lastOp = "space_ignored" /\ isActive
  /\ flashQ = <<[by |-> "manual", key |-> 3]>>
  /\ pendingYearKey = NoKey /\ currentYearKey = 1 /\ targetYear = "1751 CE"

\* C28 as stated: after every clock tick (read at hour' : minute', the
\* time the tick has seen) at minute m of the hour the
\* status text is the recharging label if m < 30 and the locked label if
\* m >= 30, and the tick has written the status text exactly when the text
\* shown before it was another one.
C28_TickStatus ==
  [][TickShown(hour', minute')
         => LET newStatus == IF minute' < 30 THEN Recharging ELSE Locked
            IN /\ statusText'.textContent = newStatus
               /\ statusText'.wrote <=> (statusText.textContent # newStatus)]_vars

\* C28, amended: the same for every clock tick that starts no automatic
\* travel; after the tick that starts one the status text is the transit
\* label, and that tick too has written the minute's label first exactly
\* when the text shown before it was another one.
C28_TickStatusOrTransit ==
  [][TickShown(hour', minute')
         => LET newStatus == IF minute' < 30 THEN Recharging ELSE Locked
            IN /\ statusText'.textContent =
                    IF lastOp' = "tick_travel" THEN Transit ELSE newStatus
               /\ statusText'.wrote <=> (statusText.textContent # newStatus)
               /\ lastOp' = "tick_travel" <=> (~isActive /\ isActive')]_vars

\* a tick at minute 30 has left the locked label without writing it, the
\* page showing the period 1969 in an hour already marked
C28_Witness ==
  /\ lastOp = "tick_already" /\ minute = 30 /\ ~isActive
  /\ statusText.textContent = Locked /\ ~statusText.wrote
  /\ currentYearKey = 2 /\ lastScheduledHour = hour

\* C29: the step that makes the wormhole active leaves the transit text as
\* the status, and while the wormhole stays active no step replaces the
\* transit text by the recharging or the locked label: a label comes back
\* only with the step that ends the transition.
C29_TransitShown ==
  [][/\ (~isActive /\ isActive') => statusText'.textContent = Transit
     /\ (isActive /\ isActive' /\ statusText.textContent = Transit)
          => statusText'.textContent \notin {Recharging, Locked}]_vars

\* C30: every run of syncYearDisplay leaves as the year label and the era
\* label, and as the original texts stored for the scramble, those of
\* currentYearKey, and leaves currentYearKey, pendingYearKey,
\* lastScheduledHour, the wormhole, the slideshow, the timers in flight
\* and the chimes as they were.
C30_SyncOnlyShows ==
  [][SyncYearDisplay
       => /\ yearValue'.textContent = years[currentYearKey].year
          /\ yearEra'.textContent = years[currentYearKey].era
          /\ yearValue'.originalText = years[currentYearKey].year
          /\ yearEra'.originalText = years[currentYearKey].era
          /\ UNCHANGED <<travelVars, wormholeVars, slideshowVars, taskVars,
                         chimeVars, cueVars, statusText, tickerContent>>]_vars

\* a sync has run during the fade of the arrival in 423 BCE and during a
\* scramble that started in 2025: the labels and the stored texts are
\* those of 423 BCE, the period of currentYearKey, before goToYear has
\* written them
C30_Witness ==
  /\ lastOp = "sync" /\ currentYearKey = 4 /\ arriveQ # <<>>
  /\ yearValue.scrambling /\ yearValue.scrambleText = years[1].year
  /\ yearValue.textContent = years[4].year
  /\ yearValue.originalText = years[4].year
  /\ yearEra.textContent = years[4].era /\ yearEra.originalText = years[4].era

\* C31: whenever the page is initialized, the wormhole is inactive, no
\* stop or arrival is in flight and no scramble runs on the year label,
\* the year label reads the year of currentYearKey.
C31_LabelOfPeriod ==
  (/\ isInitialized /\ ~isActive
   /\ holdQ = <<>> /\ flashQ = <<>> /\ arriveQ = <<>>
   /\ ~yearValue.scrambling)
    => yearValue.textContent = years[currentYearKey].year

\* C32: whenever the page is initialized and no arrival routine is
\* running, the folder the slideshow has loaded is the folder of
\* currentYearKey and the ticker shows, twice, the facts of that folder
\* in one of the orders the shuffle can leave.
C32_ShownOfPeriod ==
  (isInitialized /\ arriveQ = <<>>)
    => LET folder == years[currentYearKey].folder
       IN /\ currentYear = folder
          /\ \E shuffledFacts \in shuffleArray(factsOf(View, folder)) :
               tickerContent = <<join(shuffledFacts, separator) \o <<separator>>,
                                 join(shuffledFacts, separator) \o <<separator>>>>

\* the arrival in 1969 has finished while the next episode, started by
\* the digit 3 during its fade, is running: slideshow and ticker are
\* those of 1969, whose facts are not those of the other folders
C32_Witness ==
  /\ lastOp = "faded" /\ isActive /\ pendingYearKey = 3 /\ arriveQ = <<>>
  /\ currentYearKey = 2 /\ currentYear = "1969"
  /\ facts["1969"] = <<"a", "b", "a">>
  /\ facts["2025"] # facts["1969"] /\ facts["1751"] # facts["1969"]
  /\ tickerContent[1] = <<"a", separator, "a", separator, "b", separator>>

\* C33: in every state the slideshow can reach by loadYear, pause, resume,
\* the timer, image loads and video events, pause leaves no auto-advance
\* timer and a second pause changes nothing, resume leaves exactly one
\* timer and a second resume changes nothing, and at most one timer
\* exists, the one intervalId holds.
C33_Idempotent ==
  LET sl == [Slides EXCEPT !.lastOp = "any"]
  IN /\ pause(pause(sl)) = pause(sl)
     /\ pause(sl).timers = 0 /\ ~pause(sl).intervalId
     /\ resume(resume(sl)) = resume(sl)
     /\ resume(sl).timers = 1 /\ resume(sl).intervalId
     /\ timers <= 1 /\ (intervalId <=> timers = 1)

\* a second resume while a video plays: one timer
C33_Witness ==
  /\ lastOp = "resume" /\ isVideoPlaying /\ video = "playing"
  /\ intervalId /\ timers = 1 /\ Len(mediaItems) = 2
  /\ resume(Slides) = Slides

\* C34: a poll that reads minute 0 while a chime sequence is in progress
\* leaves lastChimeHour and the running sequence as they are; and a poll
\* that reads minute 0 of the same hour after such a poll, the sequence
\* over, marks the hour and starts the hourly chime with
\* getChimeCount(hour) strikes.
C34_RetryInMinuteZero ==
  [][/\ (Poll /\ minute = 0 /\ isChiming)
          => /\ lastChimeHour' = lastChimeHour
             /\ UNCHANGED <<isChiming, chimeQ, chimeLog, hourlyStarts>>
     /\ (Poll /\ minute = 0 /\ heldBack /\ ~isChiming /\ lastChimeHour # hour)
          => /\ lastChimeHour' = hour
             /\ isChiming' /\ Len(chimeQ') = 1
             /\ chimeQ'[1].count = getChimeCount(hour) /\ chimeQ'[1].i = 0
             /\ hourlyStarts' = <<getChimeCount(hour)>>]_vars

\* the hourly chime of one o'clock, started by the second poll of minute
\* 0 after the first one found a test chime in progress
C34_Witness ==
  /\ lastOp = "poll_chime" /\ heldBack /\ minute = 0 /\ hour = 1
  /\ lastChimeHour = 1 /\ isChiming /\ boundary
  /\ hourlyStarts = <<1>> /\ chimeCount = 1

\* C35: with the timers firing and play() settling, every chime sequence
\* that has started comes to its end and isChiming is cleared, whatever
\* its count and whatever happens at each strike (the asset plays, its
\* play() is rejected, the element has no source).
C35_SequenceEnds == isChiming ~> ~isChiming

\* the twelve strikes of the B key at noon are over, the asset rejected at
\* the last one
C35_Witness ==
  /\ lastOp = "chime_end" /\ ~isChiming /\ chimeQ = <<>>
  /\ chimeCount = 12 /\ Len(chimeLog) = 23 /\ hourlyStarts = <<>>
  /\ bellCue = "synth" /\ audioBell = "ready"

\* C36: travel and chimes are independent.  Every key, tick and due
\* timer of the travel is handled whether a chime sequence is in progress
\* or not, and every poll, test key and due timer of the chimes whether a
\* transition is in progress or not.  The chime engine's state
\* changes only in a poll, a test key or a timer of the chimes (and in
\* init, which starts the poll), the travel's state only in a key, tick
\* or timer of the travel (and in init).  With a chime sequence in
\* progress or not, a digit for another period starts its transition, the
\* tick of an unmarked scheduled hour starts the automatic one, and the
\* end of the flash commits the destination; with a transition in
\* progress or not, the T key starts its three strikes and the poll of
\* minute 0 of an unchimed hour starts the hourly chime.
C36_Independent ==
  /\ [](isInitialized
          => (/\ ENABLED SpaceKey /\ ENABLED ClockTickNow
              /\ ENABLED DigitKey(BothKey)
              /\ ((holdQ # <<>> /\ arriveQ = <<>>) => ENABLED HoldTimer)
              /\ ((flashQ # <<>> /\ arriveQ = <<>>) => ENABLED FlashDone)
              /\ (arriveQ # <<>> => ENABLED FadeTimer)
              /\ ENABLED Poll /\ ENABLED TKey
              /\ \A k \in DOMAIN chimeQ :
                   /\ (chimeQ[k].at = "ring" => ENABLED BellRung(k))
                   /\ (chimeQ[k].at = "wait" => ENABLED WaitDone(k))
                   /\ (chimeQ[k].at = "play"
                        => \E outcome \in {"resolved", "rejected"} :
                             ENABLED PlaySettles(k, outcome))))
  /\ [][/\ <<chimeVars, chimeLog, chimeCount, hourlyStarts>>'
               # <<chimeVars, chimeLog, chimeCount, hourlyStarts>>
             => \/ PageOpens \/ Poll \/ TKey \/ TimePassesOpen
                \/ \E k \in DOMAIN chimeQ :
                     \/ BellRung(k) \/ WaitDone(k)
                     \/ \E outcome \in {"resolved", "rejected"} : PlaySettles(k, outcome)
        /\ <<travelVars, wormholeVars, taskVars, slideshowVars>>'
               # <<travelVars, wormholeVars, taskVars, slideshowVars>>
             => \/ PageOpens \/ SpaceKey \/ ClockTickNow
                \/ HoldTimer \/ FlashDone \/ FadeTimer
                \/ DigitKey(BothKey)
        /\ (~isActive /\ BothKey # currentYearKey /\ DigitKey(BothKey))
             => isActive' /\ pendingYearKey' = BothKey
        /\ (~isActive /\ hour \in DOMAIN schedule /\ lastScheduledHour # hour
              /\ currentYearKey # schedule[hour] /\ ClockTickNow)
             => isActive' /\ lastScheduledHour' = hour /\ holdQ' = <<schedule[hour]>>
        /\ (flashQ # <<>> /\ FlashDone)
             => (~isActive' /\ currentYearKey' = Head(flashQ).key)
        /\ (~isChiming /\ TKey) => (isChiming' /\ chimeCount' = 3)
        /\ (minute = 0 /\ lastChimeHour # hour /\ ~isChiming /\ Poll)
             => (isChiming' /\ lastChimeHour' = hour
                 /\ chimeCount' = getChimeCount(hour))]_vars

\* eight o'clock, a scheduled hour: the hourly chime of eight strikes and
\* the automatic travel to 2025 are both in progress
C36_Witness ==
  /\ hour = 20 /\ minute = 0
  /\ isChiming /\ hourlyStarts = <<8>> /\ lastChimeHour = 20
  /\ isActive /\ holdQ = <<1>> /\ lastScheduledHour = 20
  /\ currentYearKey = 2 /\ targetYear = "2025 CE"

\* C37: in every hour h of 0..23 the B key starts its test chime with
\* getChimeCount(h) strikes, the count of the hourly chime of that hour:
\* the first strike is under way and the sequence is one of that count.
C37_BKeyCount ==
  [][(~isChiming /\ audioBell # "none" /\ BKey)
       => /\ isChiming' /\ chimeCount' = getChimeCount(hour)
          /\ Len(chimeQ') = 1 /\ chimeQ'[1].count = getChimeCount(hour)
          /\ chimeQ'[1].count \in 1..12
          /\ chimeLog' = <<"strike">>]_vars

\* the B key at noon: twelve strikes, where h % 12 is 0
C37_Witness ==
  /\ lastOp = "test_chime" /\ hour = 12 /\ isChiming
  /\ chimeCount = 12 /\ chimeQ[1].count = 12 /\ chimeQ[1].i = 0
  /\ hourlyStarts = <<>>

====
